---- MODULE Spec2Model ----
(***************************************************************************)
(* A model of the crossplane-explorer VS Code extension.                   *)
(*                                                                         *)
(* Spec      : the temp-file-backed view/edit session manager of           *)
(*             extension.ts (viewResource, editResource, the save and the  *)
(*             close handlers) together with the editor host it talks to.  *)
(* SpecClean : what editResource writes for a fetched object (the          *)
(*             sanitisation of lines 255-268), over bounded objects.       *)
(* SpecWatch : the field watch of extension.ts (showLiveDiff and           *)
(*             stopFieldWatch) together with the watch requests it opens.  *)
(* SpecK8sClean : cleanK8sObject applied to an object and to its own       *)
(*             result, over bounded objects.                               *)
(* SpecDiff  : showDiff applied to two cleaned objects.                    *)
(* SpecTree  : the caches of CrossplaneExplorerProvider and of             *)
(*             HelmTreeProvider under refresh() and getChildren().         *)
(* SpecGroup : the grouping of composites under deployment-flow            *)
(*             (crossplaneExplorer.ts 238-352), over bounded lists.        *)
(* SpecOps   : the save handler with its verification and the pause and   *)
(*             resume commands of the later revision of extension.ts,      *)
(*             together with the cluster they talk to.                     *)
(* SpecNode  : the node getChildren builds for one object of a category   *)
(*             (crossplaneExplorer.ts 456-531 and 564-653).                *)
(* SpecXr    : the expansion of a composite node of deployment-flow        *)
(*             (crossplaneExplorer.ts 354-392 and the branches after it).  *)
(* SpecRun   : one call of executeCommand / executeCommandWithStdin         *)
(*             (utils.ts) together with the child process it spawns.       *)
(* SpecMetrics : the Performance panel: CrossplaneMetricsTreeProvider      *)
(*             (metricsTreeProvider.ts) and the expand / collapse handlers *)
(*             of its tree view (extension.ts).                            *)
(* SpecDel   : the command crossplane-explorer.deleteResource with its    *)
(*             confirmation dialog (extension.ts).                         *)
(* SpecDeploy : the commands crossplaneExplorer.deployComposition and     *)
(*             undeployComposition on a folder (extension.ts).             *)
(* SpecLog   : the pod log watches: crossplane-explorer.tailPodLogs and   *)
(*             stopPodLog (extension.ts).                                  *)
(* SpecDebug : safeDeleteEnableDebugConfig on a cluster of providers and  *)
(*             functions (extension.ts).                                   *)
(* SpecTab   : helm-explorer.viewRelease and the details tabs it opens    *)
(*             (showEnhancedHelmReleaseDetails, extension.ts).             *)
(* SpecScaffold : crossplaneExplorer.compositionInit, the template files   *)
(*             it copies into a target folder (extension.ts).              *)
(*                                                                         *)
(* The extension runs on a single-threaded event loop.  Every handler is   *)
(* cut at its await points: one action is the code that runs between two   *)
(* awaits, and the actions of different handler invocations interleave.    *)
(***************************************************************************)
EXTENDS Integers, FiniteSets, Sequences, Bags, TLC

(***************************************************************************)
(* Bounds of the model.                                                    *)
(***************************************************************************)
\* view/edit command invocations that may be in flight at once
MaxCalls == 2
\* temp file names that may be in use at once
MaxPaths == 2
\* kubectl apply subprocesses that may be in flight at once
MaxApplies == 1
\* nesting depth of the keys of a fetched object
MaxDepth == 3
\* length of the lists in the objects that are diffed
MaxItems == 2
\* bulk fetches a tree provider starts
MaxFetches == 2
\* calls of refresh() on a tree provider
MaxRefreshes == 2
\* composites in the cluster when deployment-flow is expanded
MaxComposites == 3
\* save, pause and resume invocations that may be in flight at once
MaxOps == 2
\* entries of spec.resourceRefs of a composite
MaxRefs == 3
\* nested composites below a root composite
MaxNesting == 2
\* chunks a subprocess writes to one of its output streams
MaxChunks == 2
\* metrics commands spawned in one behaviour
MaxSpawns == 3
\* invocations of deleteResource in one behaviour
MaxDeletes == 2
\* invocations of Deploy and UnDeploy in one behaviour
MaxDeploys == 2
\* log watches started in one behaviour
MaxLogs == 3
\* details documents created in one behaviour
MaxTabs == 3
\* calls of viewRelease that may be in flight at once
MaxViews == 2
\* template file names of the model, the first ones of templateFiles
MaxTemplates == 3
\* calls of Composition Init in one behaviour
MaxInits == 2
\* folder pickers open at once
MaxDialogs == 1
\* changes of the user to the folders in one behaviour
MaxEdits == 2
\* output channels that may exist at once
MaxChannels == 2

Resources == {"r1"}
Modes == {"view", "edit"}
Paths == 1..MaxPaths
NoPath == 0

(***************************************************************************)
(* State.                                                                  *)
(***************************************************************************)
VARIABLES
    \* extension.ts module state
    resourceToTempFileMap,   \* Map<string,string>: resource key -> temp file path
    tempFileToResourceMap,   \* Map<string,string>: temp file path -> resource key
    openingResources,        \* Set<string>: keys whose open is in progress
    \* the suspended invocations of the viewResource / editResource handlers (a bag)
    calls,
    \* the temp files under os.tmpdir() that exist and that something still
    \* refers to (a left-over file nothing names any more is never read again)
    files,
    \* the editor host
    docs,                    \* text documents the host has open
    editors,                 \* documents that have an editor tab
    \* kubectl apply subprocesses the save handler started and that still run
    applying,
    \* what the last step reported: a notification shown to the user, "logUnlink"
    \* or "logRmdir" for a console.error that only logs, "none" for nothing
    lastMsg,
    \* editResource's sanitisation, taken alone
    fetched,                 \* what yaml.load(stdout) returned
    written,                 \* what the edit session wrote, or how it ended
    \* the field watch
    fieldWatchMap,           \* Map<string, () => void>: key -> the stopWatch of a start
    fieldWatchOutputMap,     \* Map<string, OutputChannel>: key -> output channel
    channels,                \* the output channels not disposed of, each with its key
    subs,                    \* the watch requests open against the cluster, each with its key
    starts,                  \* the suspended invocations of showLiveDiff
    watchMsg,                \* what the last field watch step appended or showed
    prevObj,                 \* the prevObj of each watch callback (line 551)
    late,                    \* aborted requests the transport still holds an event of
    lastEvent,               \* what the watch callback did in the last step, if it ran
    \* cleanK8sObject, taken alone
    cleanArg,                \* the object the caller gave, as the caller holds it
    cleanArgBefore,          \* that object as it was before the first call
    cleanOnce,               \* cleanK8sObject(X)
    cleanTwice,              \* cleanK8sObject(cleanK8sObject(X))
    cleanCalls,              \* the calls made so far
    \* showDiff, taken alone
    diffOld,                 \* the cleaned object A
    diffNew,                 \* the cleaned object B
    diffOut,                 \* the lines showDiff appended for A and B
    \* the tree providers, by provider
    cache,                   \* allResources / helmReleases
    loading,                 \* the loading flag
    inFlight,                \* the bulk fetches whose subprocess runs
    spawnedAt,               \* history: for each bulk fetch, the refreshes before its start
    refreshCount,            \* history: the calls of refresh() so far
    fired,                   \* onDidChangeTreeData fired and not yet answered
    handed,                  \* the kinds of node returned to the tree view so far
    resolved,                \* how the last call of getChildren ended, if the step ended one
    \* the deployment-flow category, taken alone
    flowItems,               \* result.items of kubectl get composite
    flowOut,                 \* the nodes getChildren(deployment-flow) returned
    claimOut,                \* the children getChildren(claim node) returned
    \* save (apply), pause and resume, as of the later revision of extension.ts
    annotation,              \* crossplane.io/paused of the resource in the cluster
    liveSpec,                \* spec of the resource in the cluster
    ops,                     \* the handler invocations, each with its position
    lastRun,                 \* the invocation that ended in the last step, with what it showed
    \* the expansion of a category of the Crossplane tree, taken alone
    nodeElement,             \* the label of the category node that is expanded
    nodeItem,                \* an object of the cluster
    nodeOut,                 \* the node getChildren returned for the object, if any
    \* the expansion of a composite node of deployment-flow, taken alone
    xrElement,               \* the composite node that is expanded
    xrRefs,                  \* spec.resourceRefs of that composite in the cluster
    xrOut,                   \* what getChildren did and returned for the node
    \* executeCommand / executeCommandWithStdin (utils.ts), one call
    child,                   \* the child process: its state and exit code
    emitted,                 \* what the process has written to stdout and stderr
    collected,               \* the variables stdout and stderr of the call
    promise,                 \* the promise the call returned
    \* CrossplaneMetricsTreeProvider (metricsTreeProvider.ts)
    selectedDuration,        \* the minutes chosen, 0 for null
    monitorEndTime,          \* whether monitorEndTime is set
    monitorTimeout,          \* whether the timeout that ends monitoring is pending
    remainingTimeInterval,   \* whether the one-second countdown interval is scheduled
    metricInterval,          \* crossplaneInterval and clusterInterval: scheduled or not
    metricText,              \* crossplaneMetrics and clusterMetrics
    procs,                   \* the metrics commands spawned so far
    \* the command crossplane-explorer.deleteResource (extension.ts)
    dels,                    \* the invocations of the command
    delProcs,                \* the subprocesses they issued
    \* the commands deployComposition and undeployComposition (extension.ts)
    deploys,                 \* the invocations of the two commands
    \* pod log watches: tailPodLogs and stopPodLog (extension.ts)
    logChannels,             \* the output channels "Logs: <pod>" created so far
    logProcessMap,           \* the kubectl logs -f process of each channel
    subscriptions,           \* whether context.subscriptions is still undisposed
    \* safeDeleteEnableDebugConfig (extension.ts)
    providerRefs,            \* spec.runtimeConfigRef.name of each Provider in the cluster
    functionRefs,            \* spec.runtimeConfigRef.name of each Function in the cluster
    safeDelete,              \* one call of safeDeleteEnableDebugConfig
    \* the Helm release details tabs (extension.ts)
    openHelmReleaseTabs,     \* Map<string, {editor, revision}>: release key -> tab
    releaseDocs,             \* the details documents that are open, by document
    closeListeners,          \* documents whose onDidCloseTextDocument listener is registered
    views,                   \* the suspended calls of showEnhancedHelmReleaseDetails
    \* Composition Init (extension.ts)
    templateDir,             \* resources/templates of the extension: file name -> content
    folderFiles,             \* the target folders: folder -> file name -> content
    initDialogs,             \* calls waiting at showOpenDialog
    initReports,             \* the information messages shown, oldest first
    userEdits                \* changes made to the folders outside the command

sessionVars == <<resourceToTempFileMap, tempFileToResourceMap, openingResources,
                 calls, files, docs, editors, applying, lastMsg>>

cleanVars == <<fetched, written>>

eventVars == <<prevObj, late, lastEvent>>

watchVars == <<fieldWatchMap, fieldWatchOutputMap, channels, subs, starts, watchMsg,
               eventVars>>

k8sVars == <<cleanArg, cleanArgBefore, cleanOnce, cleanTwice, cleanCalls>>

diffVars == <<diffOld, diffNew, diffOut>>

\* what the steps of one part of the extension leave alone
treeVars == <<cache, loading, inFlight, spawnedAt, refreshCount, fired, handed, resolved>>

groupVars == <<flowItems, flowOut, claimOut>>

opsVars == <<annotation, liveSpec, ops, lastRun>>

nodeVars == <<nodeElement, nodeItem, nodeOut>>

xrVars == <<xrElement, xrRefs, xrOut>>

runVars == <<child, emitted, collected, promise>>

metricsVars == <<selectedDuration, monitorEndTime, monitorTimeout, remainingTimeInterval, metricInterval, metricText, procs>>

delVars == <<dels, delProcs>>

deployVars == <<deploys>>

logVars == <<logChannels, logProcessMap, subscriptions>>

debugVars == <<providerRefs, functionRefs, safeDelete>>

tabVars == <<openHelmReleaseTabs, releaseDocs, closeListeners, views>>

scaffoldVars == <<templateDir, folderFiles, initDialogs, initReports, userEdits>>

notSessionVars ==
    <<cleanVars, watchVars, k8sVars, diffVars, treeVars, groupVars, opsVars, nodeVars,
      xrVars, runVars, metricsVars, delVars, deployVars, logVars, debugVars, tabVars, scaffoldVars>>

notCleanVars ==
    <<sessionVars, watchVars, k8sVars, diffVars, treeVars, groupVars, opsVars, nodeVars,
      xrVars, runVars, metricsVars, delVars, deployVars, logVars, debugVars, tabVars, scaffoldVars>>

notWatchVars ==
    <<sessionVars, cleanVars, k8sVars, diffVars, treeVars, groupVars, opsVars, nodeVars,
      xrVars, runVars, metricsVars, delVars, deployVars, logVars, debugVars, tabVars, scaffoldVars>>

notK8sVars ==
    <<sessionVars, cleanVars, watchVars, diffVars, treeVars, groupVars, opsVars, nodeVars,
      xrVars, runVars, metricsVars, delVars, deployVars, logVars, debugVars, tabVars, scaffoldVars>>

notDiffVars ==
    <<sessionVars, cleanVars, watchVars, k8sVars, treeVars, groupVars, opsVars, nodeVars,
      xrVars, runVars, metricsVars, delVars, deployVars, logVars, debugVars, tabVars, scaffoldVars>>

notTreeVars ==
    <<sessionVars, cleanVars, watchVars, k8sVars, diffVars, groupVars, opsVars, nodeVars,
      xrVars, runVars, metricsVars, delVars, deployVars, logVars, debugVars, tabVars, scaffoldVars>>

notGroupVars ==
    <<sessionVars, cleanVars, watchVars, k8sVars, diffVars, treeVars, opsVars, nodeVars,
      xrVars, runVars, metricsVars, delVars, deployVars, logVars, debugVars, tabVars, scaffoldVars>>

notOpsVars ==
    <<sessionVars, cleanVars, watchVars, k8sVars, diffVars, treeVars, groupVars, nodeVars,
      xrVars, runVars, metricsVars, delVars, deployVars, logVars, debugVars, tabVars, scaffoldVars>>

notNodeVars ==
    <<sessionVars, cleanVars, watchVars, k8sVars, diffVars, treeVars, groupVars, opsVars,
      xrVars, runVars, metricsVars, delVars, deployVars, logVars, debugVars, tabVars, scaffoldVars>>

notXrVars ==
    <<sessionVars, cleanVars, watchVars, k8sVars, diffVars, treeVars, groupVars, opsVars,
      nodeVars, runVars, metricsVars, delVars, deployVars, logVars, debugVars, tabVars, scaffoldVars>>

notRunVars ==
    <<sessionVars, cleanVars, watchVars, k8sVars, diffVars, treeVars, groupVars, opsVars,
      nodeVars, xrVars, metricsVars, delVars, deployVars, logVars, debugVars, tabVars, scaffoldVars>>

notMetricsVars ==
    <<sessionVars, cleanVars, watchVars, k8sVars, diffVars, treeVars, groupVars, opsVars,
      nodeVars, xrVars, runVars, delVars, deployVars, logVars, debugVars, tabVars, scaffoldVars>>

notDelVars ==
    <<sessionVars, cleanVars, watchVars, k8sVars, diffVars, treeVars, groupVars, opsVars,
      nodeVars, xrVars, runVars, metricsVars, deployVars, logVars, debugVars, tabVars, scaffoldVars>>

notDeployVars ==
    <<sessionVars, cleanVars, watchVars, k8sVars, diffVars, treeVars, groupVars, opsVars,
      nodeVars, xrVars, runVars, metricsVars, delVars, logVars, debugVars, tabVars, scaffoldVars>>

notLogVars ==
    <<sessionVars, cleanVars, watchVars, k8sVars, diffVars, treeVars, groupVars, opsVars,
      nodeVars, xrVars, runVars, metricsVars, delVars, deployVars, debugVars, tabVars, scaffoldVars>>

notDebugVars ==
    <<sessionVars, cleanVars, watchVars, k8sVars, diffVars, treeVars, groupVars, opsVars,
      nodeVars, xrVars, runVars, metricsVars, delVars, deployVars, logVars, tabVars, scaffoldVars>>

notTabVars ==
    <<sessionVars, cleanVars, watchVars, k8sVars, diffVars, treeVars, groupVars, opsVars,
      nodeVars, xrVars, runVars, metricsVars, delVars, deployVars, logVars, debugVars, scaffoldVars>>

notScaffoldVars ==
    <<sessionVars, cleanVars, watchVars, k8sVars, diffVars, treeVars, groupVars, opsVars,
      nodeVars, xrVars, runVars, metricsVars, delVars, deployVars, logVars, debugVars, tabVars>>

vars ==
    <<sessionVars, cleanVars, watchVars, k8sVars, diffVars, treeVars, groupVars, opsVars, nodeVars,
      xrVars, runVars, metricsVars, delVars, deployVars, logVars, debugVars, tabVars, scaffoldVars>>

(***************************************************************************)
(* Map helpers (JavaScript Map: set, delete, has).                         *)
(***************************************************************************)
MapSet(m, k, v) == [x \in (DOMAIN m) \cup {k} |-> IF x = k THEN v ELSE m[x]]

MapDelete(m, k) == [x \in (DOMAIN m) \ {k} |-> m[x]]

MapHas(m, k) == k \in DOMAIN m

MapValues(m) == {m[k] : k \in DOMAIN m}

\* getResourceKey(resource, mode): `${type}:${namespace}:${name}:${mode}`
getResourceKey(resource, mode) == <<resource, mode>>

Keys == {getResourceKey(r, m) : r \in Resources, m \in Modes}

KeyResource(key) == key[1]

KeyMode(key) == key[2]

\* getAllTempFilePaths(resource), reading the forward map fwd
getAllTempFilePaths(fwd, resource) ==
    {fwd[k] : k \in {kk \in {getResourceKey(resource, "view"),
                             getResourceKey(resource, "edit")} : MapHas(fwd, kk)}}

(***************************************************************************)
(* Handler invocations.  pc names the await the invocation is suspended at *)
(*   reopening : openTextDocument(existing session file)   (edit only)     *)
(*   reshowing : showTextDocument(existing session doc)    (edit only)     *)
(*   fetching  : executeCommand('kubectl', getArgs)                        *)
(*   closing   : show + closeActiveEditor of one matching visible editor   *)
(*   opening   : openTextDocument(new temp file)                           *)
(*   showing   : showTextDocument(new doc)                                 *)
(* path is the handler's tempFilePath, todo the editors its loop has still *)
(* to close.                                                               *)
(***************************************************************************)
Call(pc, key, path, todo) == [pc |-> pc, key |-> key, path |-> path, todo |-> todo]

Running == BagToSet(calls)

Suspend(d) == calls (+) SetToBag({d})

Resume(c, d) == (calls (-) SetToBag({c})) (+) SetToBag({d})

Return(c) == calls (-) SetToBag({c})

\* paths some suspended invocation still holds in a local variable
HeldPaths == {c.path : c \in Running} \cup UNION {c.todo : c \in Running}

\* names something still refers to; any other name is as good as a fresh one
UsedPaths ==
    files \cup docs \cup editors \cup HeldPaths
          \cup DOMAIN tempFileToResourceMap \cup MapValues(resourceToTempFileMap)

\* fs.mkdtempSync(path.join(os.tmpdir(), 'crossplane-explorer-')) + the file name
MkdTemp == CHOOSE p \in Paths \ UsedPaths : \A q \in Paths \ UsedPaths : p <= q

\* openTextDocument / showTextDocument settle well iff the document is open in the
\* host or its file can be read
CanOpen(p) == p \in docs \/ p \in files

SessionInit ==
    /\ resourceToTempFileMap = [x \in {} |-> NoPath]
    /\ tempFileToResourceMap = [x \in {} |-> getResourceKey("r1", "view")]
    /\ openingResources = {}
    /\ calls = EmptyBag
    /\ files = {}
    /\ docs = {}
    /\ editors = {}
    /\ applying = 0
    /\ lastMsg = "none"

\* the opening guard of both handlers: a key that is being opened is not opened again
IsOpening(key) == key \in openingResources

\* openingResources.add(resourceKey); executeCommand('kubectl', getArgs) is started
StartFetch(key) ==
    /\ openingResources' = openingResources \cup {key}
    /\ lastMsg' = "none"

(***************************************************************************)
(* crossplane-explorer.viewResource, up to its first await.                *)
(***************************************************************************)
ViewResource(r, named) ==
    LET key == getResourceKey(r, "view") IN
    /\ BagCardinality(calls) < MaxCalls
    /\ IF ~named
       THEN /\ lastMsg' = "errMissingName"
            /\ UNCHANGED <<calls, openingResources>>
       ELSE IF IsOpening(key)
       THEN /\ lastMsg' = "none"
            /\ UNCHANGED <<calls, openingResources>>
       ELSE /\ StartFetch(key)
            /\ calls' = Suspend(Call("fetching", key, NoPath, {}))
    /\ UNCHANGED <<resourceToTempFileMap, tempFileToResourceMap, files,
                   docs, editors, applying>>

(***************************************************************************)
(* crossplane-explorer.editResource, up to its first await.                *)
(***************************************************************************)
\* line 217: an existing session is surfaced instead of fetched again
EditHasSession(key) == MapHas(resourceToTempFileMap, key)

EditResource(r, named) ==
    LET key == getResourceKey(r, "edit") IN
    /\ BagCardinality(calls) < MaxCalls
    /\ IF ~named
       THEN /\ lastMsg' = "errMissingName"
            /\ UNCHANGED <<calls, openingResources>>
       ELSE IF IsOpening(key)
       THEN /\ lastMsg' = "none"
            /\ UNCHANGED <<calls, openingResources>>
       ELSE IF EditHasSession(key)
       THEN /\ calls' = Suspend(Call("reopening", key, resourceToTempFileMap[key], {}))
            /\ lastMsg' = "none"
            /\ UNCHANGED openingResources
       ELSE /\ StartFetch(key)
            /\ calls' = Suspend(Call("fetching", key, NoPath, {}))
    /\ UNCHANGED <<resourceToTempFileMap, tempFileToResourceMap, files,
                   docs, editors, applying>>

\* the catch of lines 223-226: drop the stale entries, then fall through to the fetch
EditRecreate(c) ==
    /\ resourceToTempFileMap' = MapDelete(resourceToTempFileMap, c.key)
    /\ tempFileToResourceMap' = MapDelete(tempFileToResourceMap, c.path)
    /\ StartFetch(c.key)
    /\ calls' = Resume(c, Call("fetching", c.key, NoPath, {}))

\* editResource: openTextDocument(tempFilePath) of the existing session settles
EditReopenDone(c) ==
    /\ c.pc = "reopening"
    /\ IF CanOpen(c.path)
       THEN /\ docs' = docs \cup {c.path}
            /\ calls' = Resume(c, Call("reshowing", c.key, c.path, {}))
            /\ lastMsg' = "none"
            /\ UNCHANGED <<resourceToTempFileMap, tempFileToResourceMap,
                           openingResources>>
       ELSE /\ EditRecreate(c)
            /\ UNCHANGED docs
    /\ UNCHANGED <<files, editors, applying>>

\* editResource: showTextDocument(doc, {preview: false}) of the existing session settles
EditReshowDone(c) ==
    /\ c.pc = "reshowing"
    /\ IF CanOpen(c.path)
       THEN /\ docs' = docs \cup {c.path}
            /\ editors' = editors \cup {c.path}
            /\ calls' = Return(c)
            /\ lastMsg' = "none"
            /\ UNCHANGED <<resourceToTempFileMap, tempFileToResourceMap,
                           openingResources>>
       ELSE /\ EditRecreate(c)
            /\ UNCHANGED <<docs, editors>>
    /\ UNCHANGED <<files, applying>>

(***************************************************************************)
(* What the fetch can settle with.                                         *)
(*   reject    : kubectl exited non-zero or could not be launched          *)
(*   object    : stdout is the YAML of one object                          *)
(*   list      : stdout is YAML whose kind is List                         *)
(*   null      : stdout is empty, yaml.load gives undefined                *)
(*   writeFail : stdout is one object, mkdtempSync or writeFileSync throws *)
(***************************************************************************)
FetchOutcomes == {"reject", "object", "list", "null", "writeFail"}

Finish_KeepsGuard(c) ==
    /\ calls' = Return(c)
    /\ UNCHANGED openingResources

\* finally { openingResources.delete(resourceKey) } and the handler returns
Finish(c) ==
    /\ openingResources' = openingResources \ {c.key}
    /\ calls' = Return(c)

\* the catch blocks: 'Failed to view resource YAML' / 'Failed to get resource YAML'
ErrMsg(mode) == IF mode = "view" THEN "errView" ELSE "errGet"

\* the fetch rejects, or the code between the fetch and the map update throws
\* (edit: delete resourceYaml.status on undefined)
FetchThrows(mode, outcome) ==
    \/ outcome \in {"reject", "writeFail"}
    \/ mode = "edit" /\ outcome = "null"

\* editResource lines 255-259: kind === 'List' is rejected; viewResource writes
\* stdout as it is and never parses it
RejectsList(mode, outcome) == mode = "edit" /\ outcome = "list"

\* executeCommand('kubectl', getArgs) settles; the handler runs on to its next
\* await.  visible is vscode.window.visibleTextEditors at that moment: the user
\* decides which of the open tabs are in front.
FetchDone(c, outcome, visible) ==
    LET mode == KeyMode(c.key)
        p == MkdTemp
        fwd == MapSet(resourceToTempFileMap, c.key, p)
        allPaths == getAllTempFilePaths(fwd, KeyResource(c.key))
        todo == visible \cap allPaths IN
    /\ c.pc = "fetching"
    /\ visible \subseteq editors
    /\ IF FetchThrows(mode, outcome)
       THEN /\ Finish(c)
            /\ lastMsg' = ErrMsg(mode)
            /\ UNCHANGED <<resourceToTempFileMap, tempFileToResourceMap, files>>
       ELSE IF RejectsList(mode, outcome)
       THEN /\ Finish(c)
            /\ lastMsg' = "errList"
            /\ UNCHANGED <<resourceToTempFileMap, tempFileToResourceMap, files>>
       ELSE /\ Paths \ UsedPaths # {}
            /\ files' = files \cup {p}
            /\ resourceToTempFileMap' = fwd
            /\ tempFileToResourceMap' = MapSet(tempFileToResourceMap, p, c.key)
            /\ calls' = Resume(c, Call(IF todo = {} THEN "opening" ELSE "closing",
                                       c.key, p, todo))
            /\ lastMsg' = "none"
            /\ UNCHANGED openingResources
    /\ UNCHANGED <<docs, editors, applying>>

\* one round of the loop over the visible editors: showTextDocument(editor.document)
\* and then workbench.action.closeActiveEditor close that editor's tab
CloseEditorStep(c, e) ==
    LET rest == c.todo \ {e} IN
    /\ c.pc = "closing"
    /\ e \in c.todo
    /\ IF CanOpen(e)
       THEN /\ editors' = editors \ {e}
            /\ calls' = Resume(c, Call(IF rest = {} THEN "opening" ELSE "closing",
                                       c.key, c.path, rest))
            /\ lastMsg' = "none"
            /\ UNCHANGED openingResources
       ELSE /\ Finish(c)
            /\ lastMsg' = ErrMsg(KeyMode(c.key))
            /\ UNCHANGED editors
    /\ UNCHANGED <<resourceToTempFileMap, tempFileToResourceMap, files,
                   docs, applying>>

\* openTextDocument(tempFilePath) of the file just written settles
OpenDone(c) ==
    /\ c.pc = "opening"
    /\ IF CanOpen(c.path)
       THEN /\ docs' = docs \cup {c.path}
            /\ calls' = Resume(c, Call("showing", c.key, c.path, {}))
            /\ lastMsg' = "none"
            /\ UNCHANGED openingResources
       ELSE /\ Finish(c)
            /\ lastMsg' = ErrMsg(KeyMode(c.key))
            /\ UNCHANGED docs
    /\ UNCHANGED <<resourceToTempFileMap, tempFileToResourceMap, files,
                   editors, applying>>

\* showTextDocument(doc) of the new document settles; finally; the handler returns
ShowDone(c) ==
    /\ c.pc = "showing"
    /\ Finish(c)
    /\ IF CanOpen(c.path)
       THEN /\ docs' = docs \cup {c.path}
            /\ editors' = editors \cup {c.path}
            /\ lastMsg' = "none"
       ELSE /\ lastMsg' = ErrMsg(KeyMode(c.key))
            /\ UNCHANGED <<docs, editors>>
    /\ UNCHANGED <<resourceToTempFileMap, tempFileToResourceMap, files, applying>>

(***************************************************************************)
(* workspace.onDidSaveTextDocument.                                        *)
(***************************************************************************)
\* line 295: the save handler acts on every path the reverse map tracks
SaveIsTracked(p) == MapHas(tempFileToResourceMap, p)

\* a save handler that does not validate the text before applying it
SaveAborts_Never(valid) == FALSE

\* lines 304-309: yaml.load(fileContent) threw, the handler shows the error and returns
SaveAborts(valid) == ~valid

\* the handler up to its await: executeCommandWithStdin('kubectl', ['apply', ...])
DidSaveTextDocument(p, valid) ==
    /\ p \in editors
    /\ p \in docs
    /\ IF ~SaveIsTracked(p)
       THEN /\ lastMsg' = "none"
            /\ UNCHANGED applying
       ELSE IF SaveAborts(valid)
       THEN /\ lastMsg' = "yamlError"
            /\ UNCHANGED applying
       ELSE /\ applying < MaxApplies
            /\ applying' = applying + 1
            /\ lastMsg' = "none"
    /\ UNCHANGED <<resourceToTempFileMap, tempFileToResourceMap, openingResources,
                   calls, files, docs, editors>>

\* reject: non-zero exit; stderr: exit 0 with text on stderr; ok: exit 0, stderr empty
ApplyOutcomes == {"reject", "stderr", "ok"}

ApplyMsg(outcome) == IF outcome = "ok" THEN "infoApplied" ELSE "errApply"

\* the apply settles: an error message, or the success message and a tree refresh
ApplyDone(outcome) ==
    /\ applying > 0
    /\ applying' = applying - 1
    /\ lastMsg' = ApplyMsg(outcome)
    /\ UNCHANGED <<resourceToTempFileMap, tempFileToResourceMap, openingResources,
                   calls, files, docs, editors>>

(***************************************************************************)
(* workspace.onDidCloseTextDocument.  The host closes a document some time *)
(* after its last tab is gone, and not while an invocation is about to     *)
(* show it.  fs.unlink reports its error to a callback that only logs it   *)
(* and goes on to fs.rmdir, whose error is only logged as well; the        *)
(* directory is no state any handler reads.                                *)
(***************************************************************************)
AwaitedDocs == {c.path : c \in {cc \in Running : cc.pc \in {"reshowing", "showing"}}}

\* a close handler that deletes the entries in the unlink callback, on success only
CloseKeepsEntries_WhenUnlinkFails(unlinkOk, rmdirOk) == ~unlinkOk \/ ~rmdirOk

\* lines 336-337: both entries are deleted, whatever unlink will report
CloseKeepsEntries(unlinkOk, rmdirOk) == FALSE

\* what console.error prints, never what the user is shown
ConsoleLogs == {"logUnlink", "logRmdir"}

\* lines 330-335: a failed unlink and a failed rmdir are reported by console.error
\* only; rmdir is attempted whatever unlink reported
UnlinkReport(unlinkOk, rmdirOk) ==
    IF ~unlinkOk THEN "logUnlink" ELSE IF ~rmdirOk THEN "logRmdir" ELSE "none"

DidCloseTextDocument(p, unlinkOk, rmdirOk) ==
    /\ p \in docs
    /\ p \notin editors
    /\ p \notin AwaitedDocs
    /\ docs' = docs \ {p}
    /\ IF MapHas(tempFileToResourceMap, p)
       THEN /\ unlinkOk => p \in files
            /\ lastMsg' = UnlinkReport(unlinkOk, rmdirOk)
            /\ IF CloseKeepsEntries(unlinkOk, rmdirOk)
               THEN UNCHANGED <<resourceToTempFileMap, tempFileToResourceMap>>
               ELSE /\ tempFileToResourceMap' = MapDelete(tempFileToResourceMap, p)
                    /\ resourceToTempFileMap' =
                          MapDelete(resourceToTempFileMap, tempFileToResourceMap[p])
            /\ files' = IF unlinkOk \/ p \notin (HeldPaths \cup DOMAIN tempFileToResourceMap'
                                                   \cup MapValues(resourceToTempFileMap'))
                        THEN files \ {p} ELSE files
       ELSE /\ unlinkOk /\ rmdirOk
            /\ lastMsg' = "none"
            /\ UNCHANGED <<resourceToTempFileMap, tempFileToResourceMap, files>>
    /\ UNCHANGED <<openingResources, calls, editors, applying>>

(***************************************************************************)
(* The user and the world outside the extension.                           *)
(***************************************************************************)
\* the user closes a tab
UserCloseEditor(p) ==
    /\ p \in editors
    /\ editors' = editors \ {p}
    /\ lastMsg' = "none"
    /\ UNCHANGED <<resourceToTempFileMap, tempFileToResourceMap, openingResources,
                   calls, files, docs, applying>>

\* the temp file is removed from outside (by hand, or by a cleaner of the tmp dir).
\* While the host has the document open nothing reads the file, and the close
\* handler's unlink decides about the file when the document goes: the removal is
\* modelled where it can be seen.
ExternalDelete(p) ==
    /\ p \in files
    /\ p \notin docs
    /\ files' = files \ {p}
    /\ lastMsg' = "none"
    /\ UNCHANGED <<resourceToTempFileMap, tempFileToResourceMap, openingResources,
                   calls, docs, editors, applying>>

(***************************************************************************)
(* editResource, lines 255-268: what is written for an edit session.       *)
(* A fetched object is modelled by the key paths it has, a key path being  *)
(* the sequence of keys from the root down to a key.  yaml.load builds the *)
(* object from the text and yaml.dump writes every key the object has, so  *)
(* the written text has a key path iff the dumped object has it.           *)
(***************************************************************************)
LastApplied == "kubectl.kubernetes.io/last-applied-configuration"

\* lines 261-264: the metadata fields the edit text must not carry
SanitizedMetadataFields == {"uid", "resourceVersion", "creationTimestamp", "managedFields"}

\* spec, spec.forProvider, spec.forProvider.forProvider, ...
Chain(k) == <<"spec">> \o [i \in 1..k |-> "forProvider"]

\* the key paths a fetched object may have
KeyPaths ==
    {<<"metadata">>, <<"metadata", "name">>, <<"metadata", "annotations">>,
     <<"metadata", "annotations", LastApplied>>, <<"status">>, <<"status", "conditions">>}
    \cup {<<"metadata", f>> : f \in SanitizedMetadataFields}
    \cup {Chain(k) : k \in 0..(MaxDepth - 2)}
    \cup {Append(Chain(k), "status") : k \in 0..(MaxDepth - 2)}

IsPrefix(p, q) == Len(p) <= Len(q) /\ SubSeq(q, 1, Len(p)) = p

\* a key is in an object only if the key above it is
PrefixClosed(doc) == \A q \in doc : Len(q) > 1 => SubSeq(q, 1, Len(q) - 1) \in doc

Objects == {doc \in SUBSET KeyPaths : PrefixClosed(doc)}

\* yaml.load(stdout): undefined for an empty text, else an object with its kind
Fetched ==
    [null : {FALSE}, kind : {"List", "Composition"}, keys : Objects]
    \cup {[null |-> TRUE, kind |-> "none", keys |-> {}]}

\* JavaScript delete: the key and everything below it
DeleteKey(doc, path) == {q \in doc : ~IsPrefix(path, q)}

\* line 256
IsListObject(o) == ~o.null /\ o.kind = "List"

\* lines 260-266: only if the object has metadata; the annotation only if
\* metadata has annotations
CleanMetadata(doc) ==
    IF <<"metadata">> \in doc
    THEN LET d1 == {q \in doc : \A f \in SanitizedMetadataFields :
                                   ~IsPrefix(<<"metadata", f>>, q)}
         IN  IF <<"metadata", "annotations">> \in d1
             THEN DeleteKey(d1, <<"metadata", "annotations", LastApplied>>)
             ELSE d1
    ELSE doc

\* an edit text that keeps the object's status
DeleteStatus_Kept(doc) == doc

\* line 267: delete resourceYaml.status
DeleteStatus(doc) == DeleteKey(doc, <<"status">>)

\* line 268: the object yaml.dump is given
EditText(o) == DeleteStatus(CleanMetadata(o.keys))

NotWritten == [result |-> "pending", keys |-> {}]

\* lines 255-273 on one fetched object: the List error, or the TypeError of
\* line 267 on undefined (caught at 286), or the text written at line 273
EditSanitize ==
    /\ written = NotWritten
    /\ written' = IF IsListObject(fetched) THEN [result |-> "errList", keys |-> {}]
                  ELSE IF fetched.null THEN [result |-> "errGet", keys |-> {}]
                  ELSE [result |-> "written", keys |-> EditText(fetched)]
    /\ UNCHANGED <<fetched, notCleanVars>>

\* no object is being sanitised
CleanIdle ==
    /\ fetched = [null |-> TRUE, kind |-> "none", keys |-> {}]
    /\ written = NotWritten

(***************************************************************************)
(* JavaScript values as the watch delivers them and as the diff reads      *)
(* them.  A value is a function from the paths of its nodes to what is     *)
(* there: "object", "array", "null" or a scalar; << >> is the path of the  *)
(* root and the elements of an array are named by their index.  The        *)
(* function with no path at all is undefined.                              *)
(***************************************************************************)
Undefined == [p \in {} |-> "undefined"]

Null == (<< >> :> "null")

EmptyObject == (<< >> :> "object")

IndexName(i) == <<"0", "1", "2", "3", "4">>[i + 1]

\* the node at p and everything below it
Under(o, p) == {q \in DOMAIN o : IsPrefix(p, q)}

\* JavaScript delete of the property at path p
DeletePath(o, p) == [q \in DOMAIN o \ Under(o, p) |-> o[q]]

\* the names of the properties (the indexes of the elements) of the node at p
ChildKeys(o, p) == {q[Len(p) + 1] : q \in {x \in DOMAIN o : Len(x) = Len(p) + 1 /\ IsPrefix(p, x)}}

ArrayLen(o, p) == Cardinality(ChildKeys(o, p))

\* if (x.a): an object, an array and a non-empty string are truthy
Truthy(o, p) == p \in DOMAIN o /\ o[p] \notin {"null", "undefined"}

\* any choice of the properties keys below prefix, each with a scalar of vals
OptionalFields(prefix, keys, vals) ==
    UNION {[{Append(prefix, k) : k \in S} -> vals] : S \in SUBSET keys}

\* JSON.parse(JSON.stringify(o)) of an object: a property whose value is
\* undefined is not written, so it is gone from the copy
JsonRoundTrip(o) ==
    [q \in {x \in DOMAIN o : \A p \in DOMAIN o : IsPrefix(p, x) => o[p] # "undefined"} |-> o[q]]

\* JSON.stringify(o): the text of o, and undefined (no text) for undefined
JsonStringify(o) == IF o = Undefined THEN Undefined ELSE JsonRoundTrip(o)

(***************************************************************************)
(* cleanK8sObject (lines 535-549).                                         *)
(***************************************************************************)
\* lines 539-543
NoisyMetadataFields ==
    {"managedFields", "resourceVersion", "creationTimestamp", "generation", "uid"}

\* a clean that works on the object it is given
CallerObjectAfterClean_InPlace(obj) ==
    IF Truthy(obj, <<"status">>) THEN DeletePath(obj, <<"status", "conditions">>) ELSE obj

\* the caller's object after the call: every delete is done on the copy of line 537
CallerObjectAfterClean(obj) == obj

cleanK8sObject(obj) ==
    IF obj \in {Undefined, Null}
    THEN obj
    ELSE LET copy == JsonRoundTrip(obj)
             c1 == IF Truthy(copy, <<"metadata">>)
                   THEN [q \in {x \in DOMAIN copy : \A f \in NoisyMetadataFields :
                                   ~IsPrefix(<<"metadata", f>>, x)} |-> copy[q]]
                   ELSE copy
         IN  IF Truthy(c1, <<"status">>)
             THEN DeletePath(c1, <<"status", "conditions">>)
             ELSE c1

(***************************************************************************)
(* showDiff (lines 603-634) and the deep-diff it calls (line 606).         *)
(***************************************************************************)
\* line 604: yaml.load(str) || {}.  yaml.load turns what it is given into a
\* string first, so undefined is read as the scalar 'undefined'
YamlLoadOrEmpty(str) ==
    IF str = Undefined THEN (<< >> :> "undefined")
    ELSE IF str = Null THEN EmptyObject
    ELSE str

\* deep-diff's realTypeOf
RealTypeOf(v) == IF v \in {"object", "array", "null"} THEN v ELSE "string"

\* a change of deep-diff: kind N, D, E at path, or kind A at the path of an
\* array with the index and the kind of the item
Change(kind, path, index, item) ==
    [kind |-> kind, path |-> path, index |-> index, item |-> item]

RECURSIVE DiffAt(_, _, _)
\* deep-diff's deepDiff(lhs, rhs, changes, prefilter, path, key): arrays are
\* walked from the end, the surplus of the longer one gives changes of kind A
DiffAt(lhs, rhs, p) ==
    IF p \notin DOMAIN lhs /\ p \notin DOMAIN rhs THEN {}
    ELSE IF p \notin DOMAIN lhs THEN {Change("N", p, "", "")}
    ELSE IF p \notin DOMAIN rhs THEN {Change("D", p, "", "")}
    ELSE IF RealTypeOf(lhs[p]) # RealTypeOf(rhs[p]) THEN {Change("E", p, "", "")}
    ELSE IF lhs[p] = "object"
    THEN UNION {DiffAt(lhs, rhs, Append(p, k)) : k \in ChildKeys(lhs, p) \cup ChildKeys(rhs, p)}
    ELSE IF lhs[p] = "array"
    THEN LET n == ArrayLen(lhs, p)
             m == ArrayLen(rhs, p)
             common == IF n < m THEN n ELSE m
         IN  {Change("A", p, IndexName(i), "N") : i \in n..(m - 1)}
             \cup {Change("A", p, IndexName(i), "D") : i \in m..(n - 1)}
             \cup UNION {DiffAt(lhs, rhs, Append(p, IndexName(i))) : i \in 0..(common - 1)}
    ELSE IF lhs[p] # rhs[p] THEN {Change("E", p, "", "")}
    ELSE {}

\* line 606
deepDiff(oldObj, newObj) == DiffAt(oldObj, newObj, << >>)

\* an output line: the marker it shows and the path it is about
OutLine(marker, path) == [marker |-> marker, path |-> path]

\* lines 618-624: kinds E, N and D have a line, any other kind leaves line = ''
ChangeMarker(change) ==
    IF change.kind = "E" THEN "~"
    ELSE IF change.kind = "N" THEN "+"
    ELSE IF change.kind = "D" THEN "-"
    ELSE ""

\* lines 613-632 for one change: nothing for the empty path, else the parents
\* of the path and the line
ChangeLines(change) ==
    IF change.path = << >>
    THEN {}
    ELSE {OutLine("parent", SubSeq(change.path, 1, i)) : i \in 1..(Len(change.path) - 1)}
         \cup {OutLine(ChangeMarker(change), change.path)}

\* the lines showDiff(oldStr, newStr, output) appends to output
showDiff(oldStr, newStr) ==
    UNION {ChangeLines(change) : change \in deepDiff(YamlLoadOrEmpty(oldStr), YamlLoadOrEmpty(newStr))}

(***************************************************************************)
(* The field watch: crossplaneExplorer.showLiveDiff (lines 459-587) and    *)
(* crossplaneExplorer.stopFieldWatch (lines 590-601).  showLiveDiff is cut *)
(* at its three awaits: the import of the client (477), the read of the    *)
(* CRD (506) and the start of the watch (553).                             *)
(***************************************************************************)
\* the resources a watch may be asked for; one of them has no resourceType
WatchTargets == {"r1", "r2", "untyped"}

HasType(r) == r # "untyped"

\* lines 460 and 592: `${resourceType}:${namespace || ''}:${resourceName}`
FieldWatchKey(r) == r

ChannelIds == 1..MaxChannels

UsedChannels ==
    DOMAIN channels \cup DOMAIN subs \cup MapValues(fieldWatchOutputMap)
       \cup MapValues(fieldWatchMap) \cup {s.id : s \in starts} \cup late

\* line 467: a new output channel (the lowest name not in use)
NewChannel ==
    CHOOSE id \in ChannelIds \ UsedChannels :
       \A j \in ChannelIds \ UsedChannels : id <= j

\* a line appended to the channel of key, or a notification about key
Line(key, text) == <<key, text>>

NoLine == Line("none", "none")

Start(key, id, pc) == [key |-> key, id |-> id, pc |-> pc]

\* what one run of the watch callback did: the header line it appended and the
\* two texts it gave to showDiff, if it called it
Event(id, type, called, oldStr, newStr) ==
    [id |-> id, type |-> type, header |-> TRUE, called |-> called,
     oldStr |-> oldStr, newStr |-> newStr]

NoEvent ==
    [id |-> 0, type |-> "none", header |-> FALSE, called |-> FALSE,
     oldStr |-> Undefined, newStr |-> Undefined]

WatchInit ==
    /\ fieldWatchMap = [x \in {} |-> 0]
    /\ fieldWatchOutputMap = [x \in {} |-> 0]
    /\ channels = [x \in {} |-> "r1"]
    /\ subs = [x \in {} |-> "r1"]
    /\ starts = {}
    /\ watchMsg = NoLine
    /\ prevObj = [x \in {} |-> Undefined]
    /\ late = {}
    /\ lastEvent = NoEvent

\* a start that looks for an earlier start in the map of the stop functions
WatchAlreadyRunning_ByStopMap(key) == MapHas(fieldWatchMap, key)

\* line 461
WatchAlreadyRunning(key) == MapHas(fieldWatchOutputMap, key)

\* lines 459-475, up to the first await
ShowLiveDiff(r) ==
    LET key == FieldWatchKey(r) IN
    /\ IF WatchAlreadyRunning(key)
       THEN /\ watchMsg' = Line(key, "infoAlreadyRunning")
            /\ UNCHANGED <<fieldWatchOutputMap, channels, starts>>
       ELSE /\ ChannelIds \ UsedChannels # {}
            /\ channels' = MapSet(channels, NewChannel, key)
            /\ fieldWatchOutputMap' = MapSet(fieldWatchOutputMap, key, NewChannel)
            /\ IF HasType(r)
               THEN /\ starts' = starts \cup {Start(key, NewChannel, "importing")}
                    /\ watchMsg' = NoLine
               ELSE /\ watchMsg' = Line(key, "errType")
                    /\ UNCHANGED starts
    /\ lastEvent' = NoEvent
    /\ UNCHANGED <<fieldWatchMap, subs, prevObj, late, notWatchVars>>

\* line 477 resolves; lines 478-505
ImportDone(s) ==
    /\ s.pc = "importing"
    /\ starts' = (starts \ {s}) \cup {Start(s.key, s.id, "readingCrd")}
    /\ watchMsg' = NoLine
    /\ lastEvent' = NoEvent
    /\ UNCHANGED <<fieldWatchMap, fieldWatchOutputMap, channels, subs, prevObj, late,
                   notWatchVars>>

CrdOutcomes == {"ok", "invalid", "reject"}

\* line 506 settles; lines 507-553: a CRD that is not valid and a failed read
\* end the start with error lines in the channel, which stays in the map
CrdDone(s, outcome) ==
    /\ s.pc = "readingCrd"
    /\ IF outcome = "ok"
       THEN /\ starts' = (starts \ {s}) \cup {Start(s.key, s.id, "watching")}
            /\ watchMsg' = NoLine
       ELSE /\ starts' = starts \ {s}
            /\ watchMsg' = Line(s.key, "errCrd")
    /\ lastEvent' = NoEvent
    /\ UNCHANGED <<fieldWatchMap, fieldWatchOutputMap, channels, subs, prevObj, late,
                   notWatchVars>>

\* line 553 settles; lines 579-586: the request is open and its stopWatch is
\* registered, or watch.watch rejected and the handler ends there
WatchDone(s, ok) ==
    /\ s.pc = "watching"
    /\ starts' = starts \ {s}
    /\ IF ok
       THEN /\ subs' = MapSet(subs, s.id, s.key)
            /\ fieldWatchMap' = MapSet(fieldWatchMap, s.key, s.id)
            /\ prevObj' = MapSet(prevObj, s.id, Undefined)
            /\ watchMsg' = NoLine
       ELSE /\ watchMsg' = Line(s.key, "errUnhandled")
            /\ UNCHANGED <<subs, fieldWatchMap, prevObj>>
    /\ lastEvent' = NoEvent
    /\ UNCHANGED <<fieldWatchOutputMap, channels, late, notWatchVars>>

\* a stop that leaves the channel in its map
StopKeepsOutputEntry_Always(key) == TRUE

\* line 583: stopWatch deletes the channel's entry
StopKeepsOutputEntry(key) == FALSE

\* lines 590-601, with the stopWatch of lines 579-585.  req.abort() closes the
\* request; an event the transport has already read may still be handed to the
\* callback, which stopWatch does not take away
StopFieldWatch(r) ==
    LET key == FieldWatchKey(r) IN
    /\ IF MapHas(fieldWatchMap, key)
       THEN /\ subs' = MapDelete(subs, fieldWatchMap[key])
            /\ late' = IF fieldWatchMap[key] \in DOMAIN subs
                       THEN late \cup {fieldWatchMap[key]} ELSE late
            /\ channels' = MapDelete(channels, fieldWatchMap[key])
            /\ fieldWatchMap' = MapDelete(fieldWatchMap, key)
            /\ fieldWatchOutputMap' = IF StopKeepsOutputEntry(key)
                                      THEN fieldWatchOutputMap
                                      ELSE MapDelete(fieldWatchOutputMap, key)
            /\ watchMsg' = Line(key, "infoStopped")
       ELSE /\ watchMsg' = Line(key, "infoNoActive")
            /\ UNCHANGED <<subs, late, channels, fieldWatchMap, fieldWatchOutputMap>>
    /\ lastEvent' = NoEvent
    /\ UNCHANGED <<starts, prevObj, notWatchVars>>

\* lines 573-577: the request ends by itself, with an error or without
WatchEnds(id, err) ==
    /\ id \in DOMAIN subs
    /\ subs' = MapDelete(subs, id)
    /\ prevObj' = MapDelete(prevObj, id)
    /\ watchMsg' = IF err THEN Line(subs[id], "errWatch") ELSE NoLine
    /\ lastEvent' = NoEvent
    /\ UNCHANGED <<fieldWatchMap, fieldWatchOutputMap, channels, starts, late, notWatchVars>>

(***************************************************************************)
(* The watch callback (lines 556-572) on the events of a request.          *)
(***************************************************************************)
EventTypes == {"ADDED", "MODIFIED", "DELETED", "BOOKMARK"}

\* an object as the API server sends it
EventObject(resourceVersion, replicas) ==
    EmptyObject @@ (<<"metadata">> :> "object")
                @@ (<<"metadata", "resourceVersion">> :> resourceVersion)
                @@ (<<"spec">> :> "object")
                @@ (<<"spec", "replicas">> :> replicas)

WatchEventObjects == {EventObject(rv, n) : rv \in {"1", "2"}, n \in {"1", "2"}}

\* a callback that keeps the snapshot of a deleted resource
NextPrevObj_KeptOnDelete(type, prev, cleanedObj) ==
    IF type \in {"ADDED", "MODIFIED"} THEN cleanedObj ELSE prev

\* lines 563, 566, 570: prevObj after an event
NextPrevObj(type, prev, cleanedObj) ==
    IF type \in {"ADDED", "MODIFIED"} THEN cleanedObj
    ELSE IF type = "DELETED" THEN Undefined
    ELSE prev

\* lines 557-571: the header line, then showDiff on two texts
CallbackEvent(id, type, prev, cleanedObj) ==
    IF type = "ADDED"
    THEN Event(id, type, TRUE, EmptyObject, JsonStringify(cleanedObj))
    ELSE IF type = "MODIFIED"
    THEN Event(id, type, TRUE, JsonStringify(prev), JsonStringify(cleanedObj))
    ELSE IF type = "DELETED"
    THEN Event(id, type, TRUE, JsonStringify(prev), EmptyObject)
    ELSE Event(id, type, FALSE, Undefined, Undefined)

\* the lines one run of the callback appended to its channel
EventLines(e) ==
    (IF e.header THEN {OutLine("header", << >>)} ELSE {})
       \cup (IF e.called THEN showDiff(e.oldStr, e.newStr) ELSE {})

\* the request of id delivers an event
WatchEvent(id, type, obj) ==
    /\ id \in DOMAIN subs
    /\ prevObj' = MapSet(prevObj, id, NextPrevObj(type, prevObj[id], cleanK8sObject(obj)))
    /\ lastEvent' = CallbackEvent(id, type, prevObj[id], cleanK8sObject(obj))
    /\ watchMsg' = NoLine
    /\ UNCHANGED <<fieldWatchMap, fieldWatchOutputMap, channels, subs, starts, late,
                   notWatchVars>>

\* an aborted request hands over the event the transport had already read
LateEvent(id, type, obj) ==
    /\ id \in late
    /\ late' = late \ {id}
    /\ prevObj' = MapDelete(prevObj, id)
    /\ lastEvent' = CallbackEvent(id, type, prevObj[id], cleanK8sObject(obj))
    /\ watchMsg' = NoLine
    /\ UNCHANGED <<fieldWatchMap, fieldWatchOutputMap, channels, subs, starts, notWatchVars>>

\* an aborted request had nothing left to deliver
LateDrop(id) ==
    /\ id \in late
    /\ late' = late \ {id}
    /\ prevObj' = MapDelete(prevObj, id)
    /\ lastEvent' = NoEvent
    /\ watchMsg' = NoLine
    /\ UNCHANGED <<fieldWatchMap, fieldWatchOutputMap, channels, subs, starts, notWatchVars>>

(***************************************************************************)
(* cleanK8sObject and showDiff taken alone, over bounded objects.          *)
(***************************************************************************)
\* the objects cleanK8sObject may be given: any choice of the metadata fields,
\* of the status fields and of spec.replicas, whose value may be undefined
K8sMetadataParts ==
    {Undefined} \cup
    {(<<"metadata">> :> "object") @@ f :
        f \in OptionalFields(<<"metadata">>, NoisyMetadataFields \cup {"name"}, {"1"})}

K8sStatusParts ==
    {Undefined} \cup
    {(<<"status">> :> "object") @@ f :
        f \in OptionalFields(<<"status">>, {"conditions", "ready"}, {"T"})}

K8sSpecParts ==
    {Undefined} \cup
    {(<<"spec">> :> "object") @@ f :
        f \in OptionalFields(<<"spec">>, {"replicas"}, {"1", "2", "undefined"})}

K8sObjects ==
    {Undefined, Null} \cup
    {EmptyObject @@ md @@ st @@ sp :
        md \in K8sMetadataParts, st \in K8sStatusParts, sp \in K8sSpecParts}

K8sCleanIdle ==
    /\ cleanArg = Undefined
    /\ cleanArgBefore = Undefined
    /\ cleanOnce = Undefined
    /\ cleanTwice = Undefined
    /\ cleanCalls = 0

\* cleanedObj = cleanK8sObject(obj)
CleanFirst ==
    /\ cleanCalls = 0
    /\ cleanOnce' = cleanK8sObject(cleanArg)
    /\ cleanArg' = CallerObjectAfterClean(cleanArg)
    /\ cleanCalls' = 1
    /\ UNCHANGED <<cleanArgBefore, cleanTwice, notK8sVars>>

\* cleanK8sObject(cleanedObj)
CleanSecond ==
    /\ cleanCalls = 1
    /\ cleanTwice' = cleanK8sObject(cleanOnce)
    /\ cleanOnce' = CallerObjectAfterClean(cleanOnce)
    /\ cleanCalls' = 2
    /\ UNCHANGED <<cleanArg, cleanArgBefore, notK8sVars>>

\* the value of index q[Len(q)] of the list l
ListItem(l, q) == l[CHOOSE i \in 1..Len(l) : IndexName(i - 1) = q[Len(q)]]

\* the array l at path p
ListAt(p, l) ==
    (p :> "array") @@ [q \in {Append(p, IndexName(i - 1)) : i \in 1..Len(l)} |-> ListItem(l, q)]

Lists == UNION {[1..n -> {"a", "b"}] : n \in 0..MaxItems}

\* the cleaned objects showDiff may be given
DiffSpecParts ==
    {Undefined} \cup
    {(<<"spec">> :> "object") @@ r @@ it @@ fp :
        r \in OptionalFields(<<"spec">>, {"replicas"}, {"1", "2"}),
        it \in {Undefined} \cup {ListAt(<<"spec", "items">>, l) : l \in Lists},
        fp \in {Undefined} \cup
               {(<<"spec", "forProvider">> :> "object") @@ f :
                   f \in OptionalFields(<<"spec", "forProvider">>, {"region"}, {"x"})}}

DiffStatusParts ==
    {Undefined} \cup
    {(<<"status">> :> "object") @@ f : f \in OptionalFields(<<"status">>, {"ready"}, {"T"})}

DiffObjects == {EmptyObject @@ sp @@ st : sp \in DiffSpecParts, st \in DiffStatusParts}

NotRendered == [done |-> FALSE, lines |-> {}]

DiffIdle ==
    /\ diffOld = EmptyObject
    /\ diffNew = EmptyObject
    /\ diffOut = NotRendered

\* showDiff(JSON.stringify(A), JSON.stringify(B), output)
ShowDiff ==
    /\ ~diffOut.done
    /\ diffOut' = [done |-> TRUE,
                   lines |-> showDiff(JsonStringify(diffOld), JsonStringify(diffNew))]
    /\ UNCHANGED <<diffOld, diffNew, notDiffVars>>

(***************************************************************************)
(* The tree providers: CrossplaneExplorerProvider and HelmTreeProvider.    *)
(* Each keeps the result of one bulk fetch (allResources, helmReleases)    *)
(* and a loading flag.  A call of getChildren is cut at its await of the   *)
(* subprocess; refresh() and other calls run in between.                   *)
(***************************************************************************)
Providers == {"crossplane", "helm"}

\* allResources = null, helmReleases = null
NoCache == [loaded |-> FALSE, from |-> 0, items |-> "none"]

\* the list stored from the output of the bulk fetch id, or [] after a failure
Cached(id, items) == [loaded |-> TRUE, from |-> id, items |-> items]

\* what a call of getChildren came to: a list or an exception, and the bulk
\* fetch whose items the list was made of (0: of none)
Resolved(p, node, outcome, from) ==
    [provider |-> p, node |-> node, outcome |-> outcome, from |-> from]

NoResult == Resolved("none", "none", "none", 0)

TreeInit ==
    /\ cache = [p \in Providers |-> NoCache]
    /\ loading = [p \in Providers |-> FALSE]
    /\ inFlight = [p \in Providers |-> {}]
    /\ spawnedAt = [p \in Providers |-> << >>]
    /\ refreshCount = [p \in Providers |-> 0]
    /\ fired = [p \in Providers |-> FALSE]
    /\ handed = [p \in Providers |-> {}]
    /\ resolved = NoResult

\* refresh() of either provider: the cache is set to null and the change
\* event is fired
Refresh(p) ==
    /\ refreshCount[p] < MaxRefreshes
    /\ cache' = [cache EXCEPT ![p] = NoCache]
    /\ fired' = [fired EXCEPT ![p] = TRUE]
    /\ refreshCount' = [refreshCount EXCEPT ![p] = @ + 1]
    /\ resolved' = NoResult
    /\ UNCHANGED <<loading, inFlight, spawnedAt, handed, notTreeVars>>

\* CrossplaneExplorerProvider.refresh()
XpRefresh == Refresh("crossplane")

\* HelmTreeProvider.refresh()
HelmRefresh == Refresh("helm")

\* the bulk subprocess is started and the call waits for it
SpawnBulk(p) ==
    /\ Len(spawnedAt[p]) < MaxFetches
    /\ spawnedAt' = [spawnedAt EXCEPT ![p] = Append(@, refreshCount[p])]
    /\ inFlight' = [inFlight EXCEPT ![p] = @ \cup {Len(spawnedAt[p]) + 1}]

BulkOutcomes == {"some", "empty", "fail"}

\* the cache after the subprocess of the fetch id ended: its items, or [] in
\* the catch block
CacheAfter(id, out) == IF out = "fail" THEN Cached(0, "empty") ELSE Cached(id, out)

\* CrossplaneExplorerProvider.getChildren(undefined) up to its await, or to its
\* return when the cache is there; the loading flag is read and never set
XpGetChildrenRoot ==
    /\ fired' = [fired EXCEPT !["crossplane"] = FALSE]
    /\ IF ~cache["crossplane"].loaded /\ ~loading["crossplane"]
       THEN /\ SpawnBulk("crossplane")
            /\ resolved' = NoResult
            /\ UNCHANGED handed
       ELSE /\ handed' = [handed EXCEPT !["crossplane"] = @ \cup {"XPExplorer"}]
            /\ resolved' = Resolved("crossplane", "root", "list", 0)
            /\ UNCHANGED <<inFlight, spawnedAt>>
    /\ UNCHANGED <<cache, loading, refreshCount, notTreeVars>>

\* the rest of that call after the await: try, catch and finally, and the
\* return of the XPExplorer node
XpBulkDone(id, out) ==
    /\ id \in inFlight["crossplane"]
    /\ inFlight' = [inFlight EXCEPT !["crossplane"] = @ \ {id}]
    /\ cache' = [cache EXCEPT !["crossplane"] = CacheAfter(id, out)]
    /\ loading' = [loading EXCEPT !["crossplane"] = FALSE]
    /\ handed' = [handed EXCEPT !["crossplane"] = @ \cup {"XPExplorer"}]
    /\ resolved' = Resolved("crossplane", "root", "list", 0)
    /\ UNCHANGED <<spawnedAt, refreshCount, fired, notTreeVars>>

\* getChildren(XPExplorer): getRootItems()
XpGetChildrenXPExplorer ==
    /\ "XPExplorer" \in handed["crossplane"]
    /\ handed' = [handed EXCEPT !["crossplane"] = @ \cup {"category", "deployment-flow"}]
    /\ resolved' = Resolved("crossplane", "XPExplorer", "list", 0)
    /\ UNCHANGED <<cache, loading, inFlight, spawnedAt, refreshCount, fired, notTreeVars>>

\* getChildren of one of the multiResourceTypes: [] while loading, else the
\* items of (allResources || []) of its kind
XpGetChildrenCategory ==
    /\ "category" \in handed["crossplane"]
    /\ resolved' = Resolved("crossplane", "category", "list",
                            IF loading["crossplane"] THEN 0 ELSE cache["crossplane"].from)
    /\ UNCHANGED <<cache, loading, inFlight, spawnedAt, refreshCount, fired, handed,
                   notTreeVars>>

\* getChildren(deployment-flow): its own kubectl call inside try and catch, as
\* in the branches logs-*, claim, providerconfigs and crossplane
XpGetChildrenDeploymentFlow(ok) ==
    /\ "deployment-flow" \in handed["crossplane"]
    /\ handed' = [handed EXCEPT !["crossplane"] =
                     IF ok THEN @ \cup {"deployment-flow-claim"} ELSE @]
    /\ resolved' = Resolved("crossplane", "deployment-flow", "list", 0)
    /\ UNCHANGED <<cache, loading, inFlight, spawnedAt, refreshCount, fired, notTreeVars>>

\* getChildren of a claim node: its _childComposites mapped to nodes
XpGetChildrenDeploymentFlowClaim ==
    /\ "deployment-flow-claim" \in handed["crossplane"]
    /\ resolved' = Resolved("crossplane", "deployment-flow-claim", "list", 0)
    /\ UNCHANGED <<cache, loading, inFlight, spawnedAt, refreshCount, fired, handed,
                   notTreeVars>>

\* the end of HelmTreeProvider.getChildren(undefined): the loading item, the
\* item for no releases, or the namespace nodes
HelmRootItems(isLoading, c) ==
    IF isLoading \/ ~c.loaded \/ c.items = "empty" THEN {} ELSE {"helm-namespace"}

HelmMustLoad_IgnoresLoading(c, isLoading) == ~c.loaded

\* if (!this.helmReleases && !this.loading)
HelmMustLoad(c, isLoading) == ~c.loaded /\ ~isLoading

\* HelmTreeProvider.getChildren(undefined) up to its await, or to its return
HelmGetChildrenRoot ==
    /\ fired' = [fired EXCEPT !["helm"] = FALSE]
    /\ IF HelmMustLoad(cache["helm"], loading["helm"])
       THEN /\ SpawnBulk("helm")
            /\ loading' = [loading EXCEPT !["helm"] = TRUE]
            /\ resolved' = NoResult
            /\ UNCHANGED handed
       ELSE /\ handed' = [handed EXCEPT !["helm"] =
                             @ \cup HelmRootItems(loading["helm"], cache["helm"])]
            /\ resolved' = Resolved("helm", "root", "list",
                                    IF loading["helm"] THEN 0 ELSE cache["helm"].from)
            /\ UNCHANGED <<inFlight, spawnedAt, loading>>
    /\ UNCHANGED <<cache, refreshCount, notTreeVars>>

\* the rest of that call after loadHelmReleases(): the releases or [] are
\* stored, loading is reset, the change event is fired and the root items
\* are returned
HelmLoadDone(id, out) ==
    /\ id \in inFlight["helm"]
    /\ inFlight' = [inFlight EXCEPT !["helm"] = @ \ {id}]
    /\ cache' = [cache EXCEPT !["helm"] = CacheAfter(id, out)]
    /\ loading' = [loading EXCEPT !["helm"] = FALSE]
    /\ fired' = [fired EXCEPT !["helm"] = TRUE]
    /\ handed' = [handed EXCEPT !["helm"] = @ \cup HelmRootItems(FALSE, CacheAfter(id, out))]
    /\ resolved' = Resolved("helm", "root", "list", CacheAfter(id, out).from)
    /\ UNCHANGED <<spawnedAt, refreshCount, notTreeVars>>

\* this.helmReleases!.filter(...) throws a TypeError when helmReleases is null
NamespaceOutcome(c) == IF c.loaded THEN "list" ELSE "throws"

\* getChildren of a namespace node
HelmGetChildrenNamespace ==
    /\ "helm-namespace" \in handed["helm"]
    /\ resolved' = Resolved("helm", "helm-namespace", NamespaceOutcome(cache["helm"]),
                            cache["helm"].from)
    /\ UNCHANGED <<cache, loading, inFlight, spawnedAt, refreshCount, fired, handed,
                   notTreeVars>>

(***************************************************************************)
(* The deployment-flow category: composites grouped by their claim         *)
(* reference.  The composite at position i of result.items is i.           *)
(***************************************************************************)
NoRef == [kind |-> "", group |-> "", name |-> "", namespace |-> ""]

\* spec.claimRef of a composite; group is apiVersion.split('/')[0]
ClaimRefs ==
    [kind : {"Db", "DB"}, group : {"g"}, name : {"a", "b"}, namespace : {"n", ""}]

\* a composite: its spec.claimRef and whether metadata.ownerReferences is not empty
Composites == [claimRef : ClaimRefs \cup {NoRef}, owned : BOOLEAN]

\* String.prototype.toLowerCase on the strings of the model
ToLowerCase(str) ==
    CASE str = "Db" -> "db"
      [] str = "DB" -> "db"
      [] str = "FORBIDDEN" -> "forbidden"
      [] str = "Permission denied" -> "permission denied"
      [] str = "XApp" -> "xapp"
      [] str = "App" -> "app"
      [] str = "XDb" -> "xdb"
      [] str = "Bucket" -> "bucket"
      [] OTHER -> str

\* lines 251-256: resourceType, name and namespace of a claim reference
ClaimKey(ref) == <<ToLowerCase(ref.kind), ref.group, ref.name, ref.namespace>>

\* line 250: claimRef && claimRef.name && claimRef.kind && claimRef.namespace
GroupedRef(ref) == ref # NoRef /\ ref.name # "" /\ ref.kind # "" /\ ref.namespace # ""

\* the position of the entry of claimsMap with this key, 0 if there is none
EntryOf(claimsMap, key) ==
    IF \E j \in 1..Len(claimsMap) : claimsMap[j].key = key
    THEN CHOOSE j \in 1..Len(claimsMap) : claimsMap[j].key = key
    ELSE 0

\* lines 248-262: claimsMap after the first n items, in insertion order
RECURSIVE ClaimsMap(_, _)
ClaimsMap(items, n) ==
    IF n = 0 THEN << >>
    ELSE LET m == ClaimsMap(items, n - 1)
             ref == items[n].claimRef
             j == EntryOf(m, ClaimKey(ref))
         IN  IF ~GroupedRef(ref) THEN m
             ELSE IF j = 0
                  THEN Append(m, [key |-> ClaimKey(ref), claimRef |-> ref, composites |-> <<n>>])
                  ELSE [m EXCEPT ![j].composites = Append(@, n)]

\* lines 265-288: one node per entry of claimsMap, with its _childComposites
ClaimNodes(items) == ClaimsMap(items, Len(items))

\* lines 291-294: the composites without claimRef and without ownerReferences
ParentXRs(items) ==
    SelectSeq([i \in 1..Len(items) |-> i],
              LAMBDA i : items[i].claimRef = NoRef /\ ~items[i].owned)

NotExpanded == [done |-> FALSE, claimNodes |-> << >>, parentXRNodes |-> << >>]

NoClaimOut == [node |-> 0, children |-> << >>]

GroupIdle ==
    /\ flowItems = << >>
    /\ flowOut = NotExpanded
    /\ claimOut = NoClaimOut

\* getChildren(deployment-flow) after kubectl get composite has succeeded
ExpandDeploymentFlow ==
    /\ ~flowOut.done
    /\ flowOut' = [done |-> TRUE,
                   claimNodes |-> IF Len(flowItems) = 0 THEN << >> ELSE ClaimNodes(flowItems),
                   parentXRNodes |-> IF Len(flowItems) = 0 THEN << >> ELSE ParentXRs(flowItems)]
    /\ UNCHANGED <<flowItems, claimOut, notGroupVars>>

\* getChildren(claim node): one XR node for each of its _childComposites
ExpandClaim(c) ==
    /\ flowOut.done
    /\ c \in 1..Len(flowOut.claimNodes)
    /\ claimOut' = [node |-> c, children |-> flowOut.claimNodes[c].composites]
    /\ UNCHANGED <<flowItems, flowOut, notGroupVars>>

(***************************************************************************)
(* Save with verification, pause and resume (later revision of             *)
(* extension.ts).  A handler is cut at its awaits of kubectl.              *)
(***************************************************************************)
\* the error output a kubectl subprocess may have written
Stderrs == {"", "Warning: deprecated", "is forbidden", "FORBIDDEN", "Permission denied"}

\* String.prototype.includes on the strings of the model
Includes(str, sub) ==
    \/ sub = "forbidden" /\ str \in {"is forbidden", "forbidden"}
    \/ sub = "permission" /\ str \in {"permission denied"}

\* the test of the handlers for a permission error:
\* stderr && (stderr.includes('forbidden') || stderr.toLowerCase().includes('permission'))
PermissionDenied(stderr) ==
    /\ stderr # ""
    /\ Includes(stderr, "forbidden") \/ Includes(ToLowerCase(stderr), "permission")

Specs == {"s1", "s2"}
NoSpec == "none"

OpIds == 1..MaxOps

IdleOp ==
    [pc |-> "idle", kind |-> "none", before |-> "none", exit |-> 0, stderr |-> "",
     faulty |-> FALSE, doc |-> NoSpec, parsed |-> TRUE, checked |-> "none"]

\* a message shown to the user
Msg(level, text) == <<level, text>>

NoRun == [op |-> IdleOp, messages |-> {}, refreshed |-> FALSE]

OpsIdle ==
    /\ annotation = "absent"
    /\ liveSpec = "s1"
    /\ ops = [i \in OpIds |-> IdleOp]
    /\ lastRun = NoRun

\* the handler invocation i returns after showing these messages
EndRun(i, op, messages, refreshed) ==
    /\ ops' = [ops EXCEPT ![i] = IdleOp]
    /\ lastRun' = [op |-> op, messages |-> messages, refreshed |-> refreshed]

\* the value the command annotates with
PausedValue(kind) == IF kind = "pause" THEN "true" ELSE "false"

\* pauseResource / resumeResource up to the await of kubectl annotate
AnnotateResource(i, kind, hasTypeAndName) ==
    /\ ops[i].pc = "idle"
    /\ IF hasTypeAndName
       THEN /\ ops' = [ops EXCEPT ![i] = [IdleOp EXCEPT !.pc = "annotate", !.kind = kind,
                                                         !.before = annotation]]
            /\ lastRun' = NoRun
       ELSE EndRun(i, [IdleOp EXCEPT !.kind = kind], {Msg("error", "missing")}, FALSE)
    /\ UNCHANGED <<annotation, liveSpec, notOpsVars>>

AnnotateArgs_WithoutOverwrite(kind) ==
    [annotation |-> PausedValue(kind), overwrite |-> FALSE]

\* the arguments of kubectl annotate: crossplane.io/paused=<value> --overwrite
AnnotateArgs(kind) == [annotation |-> PausedValue(kind), overwrite |-> TRUE]

\* kubectl annotate refuses to set an annotation that has a value, unless
\* --overwrite is given
KubectlAnnotateRefuses(current, args) == ~args.overwrite /\ current # "absent"

\* kubectl annotate has ended: exit code and stderr; then the permission test
AnnotateDone(i, fails, stderr) ==
    /\ ops[i].pc = "annotate"
    /\ LET args == AnnotateArgs(ops[i].kind)
           exit == IF fails \/ KubectlAnnotateRefuses(annotation, args) THEN 1 ELSE 0
           op == [ops[i] EXCEPT !.exit = exit, !.stderr = stderr, !.faulty = fails]
       IN  /\ annotation' = IF exit = 0 THEN args.annotation ELSE annotation
           /\ IF exit # 0
              THEN EndRun(i, op, {Msg("error", "failed")}, FALSE)
              ELSE IF PermissionDenied(stderr)
              THEN EndRun(i, op, {Msg("error", "permission")}, FALSE)
              ELSE /\ ops' = [ops EXCEPT ![i] = [op EXCEPT !.pc = "get"]]
                   /\ lastRun' = NoRun
    /\ UNCHANGED <<liveSpec, notOpsVars>>

\* kubectl get -o json has ended: the annotation is verified
AnnotationRead(i, ok) ==
    /\ ops[i].pc = "get"
    /\ LET op == [ops[i] EXCEPT !.checked = IF ok THEN annotation ELSE "failed"]
       IN  IF ~ok
           THEN EndRun(i, op, {Msg("error", "failed")}, FALSE)
           ELSE IF annotation # PausedValue(op.kind)
           THEN EndRun(i, op, {Msg("warning", "not applied")}, FALSE)
           ELSE EndRun(i, op, {Msg("info", "success")}, FALSE)
    /\ UNCHANGED <<annotation, liveSpec, notOpsVars>>

\* the save handler for a tracked file up to the await of kubectl apply
SaveTracked(i, parses, doc) ==
    /\ ops[i].pc = "idle"
    /\ LET op == [IdleOp EXCEPT !.kind = "save", !.doc = doc, !.parsed = parses]
       IN  IF parses
           THEN /\ ops' = [ops EXCEPT ![i] = [op EXCEPT !.pc = "apply"]]
                /\ lastRun' = NoRun
           ELSE EndRun(i, op, {Msg("error", "yaml")}, FALSE)
    /\ UNCHANGED <<annotation, liveSpec, notOpsVars>>

\* kubectl apply has ended: exit code and stderr; then the permission test
ApplyEnded(i, exit, stderr, taken) ==
    /\ ops[i].pc = "apply"
    /\ LET op == [ops[i] EXCEPT !.exit = exit, !.stderr = stderr, !.faulty = (exit # 0)]
       IN  /\ liveSpec' = IF exit = 0 /\ taken /\ op.doc # NoSpec THEN op.doc ELSE liveSpec
           /\ IF exit # 0
              THEN EndRun(i, op, {Msg("error", "failed")}, FALSE)
              ELSE IF PermissionDenied(stderr)
              THEN EndRun(i, op, {Msg("error", "permission")}, FALSE)
              ELSE /\ ops' = [ops EXCEPT ![i] = [op EXCEPT !.pc = "verify"]]
                   /\ lastRun' = NoRun
    /\ UNCHANGED <<annotation, notOpsVars>>

\* docObj?.spec && liveObj?.spec && JSON.stringify(docObj.spec) !== JSON.stringify(liveObj.spec)
SpecMismatch(doc, live) == doc # NoSpec /\ live # NoSpec /\ doc # live

SaveOutcome_NoReturnOnMismatch(failed, mismatch) ==
    IF failed
    THEN [messages |-> {Msg("warning", "unverified"), Msg("info", "success")},
          refreshed |-> TRUE]
    ELSE IF mismatch
    THEN [messages |-> {Msg("warning", "mismatch"), Msg("info", "success")},
          refreshed |-> TRUE]
    ELSE [messages |-> {Msg("info", "success")}, refreshed |-> TRUE]

\* what the handler shows after the verification: a failed verification is
\* caught and warned about, a mismatch is warned about and returns, and
\* otherwise the success notification and the refresh follow
SaveOutcome(failed, mismatch) ==
    IF failed
    THEN [messages |-> {Msg("warning", "unverified"), Msg("info", "success")},
          refreshed |-> TRUE]
    ELSE IF mismatch
    THEN [messages |-> {Msg("warning", "mismatch")}, refreshed |-> FALSE]
    ELSE [messages |-> {Msg("info", "success")}, refreshed |-> TRUE]

\* kubectl get -o yaml has ended: the verification, then the success
\* notification and the refresh
SaveVerified(i, out) ==
    /\ ops[i].pc = "verify"
    /\ LET live == IF out = "live" THEN liveSpec ELSE NoSpec
           op == [ops[i] EXCEPT !.checked = IF out = "failed" THEN "failed"
                                            ELSE IF SpecMismatch(ops[i].doc, live)
                                            THEN "mismatch" ELSE "match"]
           outcome == SaveOutcome(out = "failed", SpecMismatch(op.doc, live))
       IN  EndRun(i, op, outcome.messages, outcome.refreshed)
    /\ UNCHANGED <<annotation, liveSpec, notOpsVars>>

(***************************************************************************)
(* The nodes of a category: getChildren(element) for a category label and  *)
(* one object of the cluster.                                              *)
(***************************************************************************)
\* lines 30-39
multiResourceTypes ==
    {"environmentconfigs", "compositions", "configurations", "deploymentruntimeconfigs",
     "compositeresourcedefinitions", "providers", "functions", "providerconfigs"}

\* the category labels of the model: some of getRootItems() and some that only
\* the last branch of getChildren knows
CategoryLabels == {"providers", "functions", "compositions", "xrds", "crds", "managed"}

ConditionStatuses == {"absent", "True", "False"}

\* an object: its kind, the status of its conditions of type Healthy and
\* Synced ("absent": no such condition) and spec.scope
Items ==
    [kind : {"Provider", "Function", "Composition", "CompositeResourceDefinition", "Bucket"},
     Healthy : ConditionStatuses, Synced : ConditionStatuses, scope : {"", "Cluster"}]

\* lines 462-487: the kind the items of a category are filtered by
KindOfCategory(label) ==
    CASE label \in {"xrds", "compositeresourcedefinitions"} -> "CompositeResourceDefinition"
      [] label = "providerconfigs" -> "ProviderConfig"
      [] label = "functions" -> "Function"
      [] label = "providers" -> "Provider"
      [] label = "deploymentruntimeconfigs" -> "DeploymentRuntimeConfig"
      [] label = "configurations" -> "Configuration"
      [] label = "compositions" -> "Composition"
      [] label = "environmentconfigs" -> "EnvironmentConfig"
      [] OTHER -> "none"

\* lines 596-612: the status text of the last branch of getChildren
StatusText(resourceType, item) ==
    IF resourceType = "crds"
    THEN IF item.scope # "" THEN item.scope ELSE "Unknown"
    ELSE IF resourceType \in {"providers", "functions"}
    THEN IF item.Healthy = "absent" THEN "Unknown"
         ELSE IF item.Healthy = "True" THEN "Healthy" ELSE "Unhealthy"
    ELSE IF item.Synced = "absent" THEN "Unknown"
         ELSE IF item.Synced = "True" THEN "Synced" ELSE "NotSynced"

\* a node: the branch that built it and the status in its label ("none": the
\* label holds the name and the namespace only)
Node(branch, status) == [shown |-> TRUE, branch |-> branch, status |-> status]

NoNode == [shown |-> FALSE, branch |-> "none", status |-> "none"]

NodeIdle ==
    /\ nodeElement = "none"
    /\ nodeItem = [kind |-> "Bucket", Healthy |-> "absent", Synced |-> "absent", scope |-> ""]
    /\ nodeOut = NoNode

\* line 456: the label is one of the multiResourceTypes
IsMultiResourceType(label) ==
    (IF label = "xrds" THEN "compositeresourcedefinitions" ELSE label) \in multiResourceTypes

\* getChildren(element) for a category: the branch of the multiResourceTypes
\* comes first and returns; the last branch is for the other labels
ExpandCategory ==
    /\ nodeOut = NoNode
    /\ nodeOut' = IF IsMultiResourceType(nodeElement)
                  THEN IF nodeItem.kind = KindOfCategory(nodeElement)
                       THEN Node("multi", "none")
                       ELSE NoNode
                  ELSE Node("last", StatusText(nodeElement, nodeItem))
    /\ nodeOut' # NoNode
    /\ UNCHANGED <<nodeElement, nodeItem, notNodeVars>>

(***************************************************************************)
(* The expansion of a composite node: the nodes deployment-flow and claim  *)
(* nodes return for composites, and the children of an expanded composite. *)
(***************************************************************************)
\* the kinds of the composites of the cluster and of the entries of resourceRefs
CompositeKinds == {"XApp", "App"}

RefKinds == {"XDb", "Bucket"}

\* String.prototype.startsWith on the strings of the model
StartsWith(str, prefix) ==
    \/ prefix = "X" /\ str \in {"XApp", "XDb"}
    \/ prefix = "x" /\ str \in {"xapp", "xdb"}

\* lines 296-317, 331-350 and 362-386: the node of a composite of this kind;
\* resourceType is kind.toLowerCase() followed by the group
XrNode(kind, depth) ==
    [kind |-> kind, resourceType |-> ToLowerCase(kind), expandable |-> TRUE,
     contextValue |-> "composite-xr", depth |-> depth]

\* lines 361-386: the child for one entry of resourceRefs
RefNode(kind, depth) ==
    IF StartsWith(kind, "X")
    THEN XrNode(kind, depth)
    ELSE [kind |-> kind, resourceType |-> ToLowerCase(kind), expandable |-> FALSE,
          contextValue |-> "managed-resource", depth |-> depth]

RefLists == UNION {[1..n -> RefKinds] : n \in 0..MaxRefs}

NotFetched == [done |-> FALSE, fetch |-> "none", ok |-> FALSE, children |-> << >>]

XrIdle ==
    /\ xrElement = XrNode("XApp", 0)
    /\ xrRefs = << >>
    /\ xrOut = NotFetched

\* line 354: element.resourceType.startsWith('x') || ...startsWith('composite');
\* no resource type of the model starts with 'composite'
TakesCompositeBranch(element) == StartsWith(element.resourceType, "x")

\* getChildren(element) for a composite node: the branch of lines 354-392
\* fetches the object and maps its resourceRefs; a node that does not take it
\* reaches the last branch, whose kubectl get <label> fails and gives []
ExpandComposite(ok) ==
    /\ ~xrOut.done
    /\ xrOut' =
          IF TakesCompositeBranch(xrElement)
          THEN [done |-> TRUE, fetch |-> "object", ok |-> ok,
                children |-> IF ok
                             THEN [j \in 1..Len(xrRefs) |->
                                      RefNode(xrRefs[j], xrElement.depth + 1)]
                             ELSE << >>]
          ELSE [done |-> TRUE, fetch |-> "label", ok |-> FALSE, children |-> << >>]
    /\ UNCHANGED <<xrElement, xrRefs, notXrVars>>

\* the user expands a child that is a composite
ExpandNested(j, refs) ==
    /\ xrOut.done
    /\ j \in 1..Len(xrOut.children)
    /\ xrOut.children[j].expandable
    /\ xrOut.children[j].depth <= MaxNesting
    /\ xrElement' = xrOut.children[j]
    /\ xrRefs' = refs
    /\ xrOut' = NotFetched
    /\ UNCHANGED notXrVars

(***************************************************************************)
(* The process runner (utils.ts).  The child process emits 'data' on its   *)
(* streams, then 'exit', then 'close' once the streams have ended; a       *)
(* process that cannot be launched emits 'error'.                          *)
(***************************************************************************)
Chunks == {"a", "b"}

\* the exit code of a process ended by a signal is null; here it is -1
ExitCodes == {0, 1, -1}

NoChild == [state |-> "none", code |-> 0, stdin |-> FALSE, written |-> FALSE]

NoText == [stdout |-> << >>, stderr |-> << >>]

\* a promise: pending, or resolved with a value, or rejected; calls counts the
\* calls of resolve and reject
Pending == [state |-> "pending", value |-> NoText, calls |-> 0]

RunIdle ==
    /\ child = NoChild
    /\ emitted = NoText
    /\ collected = NoText
    /\ promise = Pending

\* resolve(value) and reject(error) settle a pending promise and leave a
\* settled one as it is
Settle(p, how, value) ==
    IF p.state = "pending"
    THEN [state |-> how, value |-> value, calls |-> p.calls + 1]
    ELSE [p EXCEPT !.calls = @ + 1]

\* the call up to the return of its promise: cp.spawn, the listeners and, with
\* stdin, child.stdin.write and end.  cp.spawn starts the process ("ok"), or
\* returns a child that will emit 'error' ("enoent"), or throws ("throws"),
\* which rejects the promise
Launch(withStdin, outcome) ==
    /\ child.state = "none"
    /\ promise.state = "pending"
    /\ child' = [state |-> CASE outcome = "ok" -> "running"
                             [] outcome = "enoent" -> "failing"
                             [] OTHER -> "unspawned",
                 code |-> 0, stdin |-> withStdin,
                 written |-> withStdin /\ outcome = "ok"]
    /\ promise' = IF outcome = "throws" THEN Settle(promise, "rejected", NoText) ELSE promise
    /\ UNCHANGED <<emitted, collected, notRunVars>>

\* child.stdout.on('data'): stdout += data.toString()
StdoutData(c) ==
    /\ child.state \in {"running", "exited"}
    /\ Len(emitted.stdout) < MaxChunks
    /\ emitted' = [emitted EXCEPT !.stdout = Append(@, c)]
    /\ collected' = [collected EXCEPT !.stdout = Append(@, c)]
    /\ UNCHANGED <<child, promise, notRunVars>>

\* child.stderr.on('data'): stderr += data.toString()
StderrData(c) ==
    /\ child.state \in {"running", "exited"}
    /\ Len(emitted.stderr) < MaxChunks
    /\ emitted' = [emitted EXCEPT !.stderr = Append(@, c)]
    /\ collected' = [collected EXCEPT !.stderr = Append(@, c)]
    /\ UNCHANGED <<child, promise, notRunVars>>

\* the process ends; 'exit' has no listener
ChildExit(code) ==
    /\ child.state = "running"
    /\ child' = [child EXCEPT !.state = "exited", !.code = code]
    /\ UNCHANGED <<emitted, collected, promise, notRunVars>>

CloseRejects_OnPositiveCode(code) == code > 0

\* child.on('close'): if (code !== 0) reject(...) else resolve({ stdout, stderr })
CloseRejects(code) == code # 0

ChildClose ==
    /\ child.state = "exited"
    /\ child' = [child EXCEPT !.state = "closed"]
    /\ promise' = IF CloseRejects(child.code)
                  THEN Settle(promise, "rejected", NoText)
                  ELSE Settle(promise, "resolved", collected)
    /\ UNCHANGED <<emitted, collected, notRunVars>>

\* child.on('error'): reject(err)
ChildError ==
    /\ child.state = "failing"
    /\ child' = [child EXCEPT !.state = "failed", !.code = -1]
    /\ promise' = Settle(promise, "rejected", NoText)
    /\ UNCHANGED <<emitted, collected, notRunVars>>

\* 'close' may follow 'error'; its listener rejects once more
CloseAfterError ==
    /\ child.state = "failed"
    /\ child' = [child EXCEPT !.state = "closed"]
    /\ promise' = IF CloseRejects(child.code)
                  THEN Settle(promise, "rejected", NoText)
                  ELSE Settle(promise, "resolved", collected)
    /\ UNCHANGED <<emitted, collected, notRunVars>>

(***************************************************************************)
(* The Performance panel (metricsTreeProvider.ts, extension.ts).  The two  *)
(* metric nodes are "Crossplane" and "Cluster"; each has an interval of    *)
(* its own that spawns its command every five seconds.                     *)
(***************************************************************************)
MetricNodes == {"Crossplane", "Cluster"}

\* the labels of the nodes of the tree that can be expanded and collapsed
ExpandableLabels == MetricNodes \cup {"Pods"}

\* the durations of the quick pick, of which two are kept
Durations == {1, 5}

MetricOutputs == {"", "text"}

MetricsIdle ==
    /\ selectedDuration = 0
    /\ monitorEndTime = FALSE
    /\ monitorTimeout = FALSE
    /\ remainingTimeInterval = FALSE
    /\ metricInterval = [n \in MetricNodes |-> FALSE]
    /\ metricText = [n \in MetricNodes |-> ""]
    /\ procs = << >>

\* the test of getChildren and of the selector: selectedDuration && monitorEndTime
MonitoringActive(duration, endTime) == duration # 0 /\ endTime

\* spawn(...) of runCrossplaneMetrics / runClusterMetrics: one more process,
\* recorded with the state of monitoring at the time of the spawn
RunMetrics(ps, n, active) ==
    Append(ps, [node |-> n, active |-> active, ended |-> FALSE])

\* startCrossplaneMetrics / startClusterMetrics on the intervals iv and the
\* processes ps: nothing when the interval is scheduled, else one run at once
\* and the interval scheduled
StartIntervals(iv, n) == IF iv[n] THEN iv ELSE [iv EXCEPT ![n] = TRUE]

StartProcs(iv, ps, n, active) == IF iv[n] THEN ps ELSE RunMetrics(ps, n, active)

\* stopCrossplaneMetrics / stopClusterMetrics: clearInterval
StopIntervals(iv, n) == [iv EXCEPT ![n] = FALSE]

NoIntervals == [n \in MetricNodes |-> FALSE]

\* setMonitorDuration(minutes), after the quick pick returned a duration: both
\* intervals are stopped and started again, the timeout and the countdown
\* are set anew
SetMonitorDuration(minutes) ==
    /\ Len(procs) + 2 <= MaxSpawns
    /\ selectedDuration' = minutes
    /\ monitorEndTime' = TRUE
    /\ metricInterval' = StartIntervals(StartIntervals(NoIntervals, "Crossplane"), "Cluster")
    /\ procs' = StartProcs(StartIntervals(NoIntervals, "Crossplane"),
                           StartProcs(NoIntervals, procs, "Crossplane",
                                      MonitoringActive(minutes, TRUE)),
                           "Cluster", MonitoringActive(minutes, TRUE))
    /\ monitorTimeout' = TRUE
    /\ remainingTimeInterval' = TRUE
    /\ UNCHANGED metricText
    /\ UNCHANGED notMetricsVars

\* the quick pick dismissed: setMonitorDuration is not called
DismissDurationPick ==
    /\ UNCHANGED vars

\* the callback of monitorTimeout: monitoring ends by the timer
MonitorTimeoutFires ==
    /\ monitorTimeout
    /\ metricInterval' = StopIntervals(StopIntervals(metricInterval, "Crossplane"), "Cluster")
    /\ selectedDuration' = 0
    /\ monitorEndTime' = FALSE
    /\ remainingTimeInterval' = FALSE
    /\ monitorTimeout' = FALSE
    /\ UNCHANGED <<metricText, procs>>
    /\ UNCHANGED notMetricsVars

\* stopMonitoring(): the command of the Stop Monitoring item; the item is in
\* the tree only while monitoring is active
StopMonitoring ==
    /\ MonitoringActive(selectedDuration, monitorEndTime)
    /\ metricInterval' = StopIntervals(StopIntervals(metricInterval, "Crossplane"), "Cluster")
    /\ monitorTimeout' = FALSE
    /\ remainingTimeInterval' = FALSE
    /\ selectedDuration' = 0
    /\ monitorEndTime' = FALSE
    /\ UNCHANGED <<metricText, procs>>
    /\ UNCHANGED notMetricsVars

\* getChildren(element) for a metric node: nothing while monitoring is
\* inactive; a start while active and the node has no metrics yet
GetChildrenStarts(n) ==
    /\ n \in MetricNodes
    /\ MonitoringActive(selectedDuration, monitorEndTime)
    /\ metricText[n] = ""

\* the user expands a node: onDidExpandElement starts the fetcher of a metric
\* node, then the view asks getChildren for the children of the node
ExpandElement(label) ==
    /\ Len(procs) < MaxSpawns
    /\ LET active == MonitoringActive(selectedDuration, monitorEndTime)
           iv1 == IF label \in MetricNodes
                    THEN StartIntervals(metricInterval, label) ELSE metricInterval
           ps1 == IF label \in MetricNodes
                    THEN StartProcs(metricInterval, procs, label, active) ELSE procs
       IN  /\ metricInterval' = IF GetChildrenStarts(label)
                                  THEN StartIntervals(iv1, label) ELSE iv1
           /\ procs' = IF GetChildrenStarts(label)
                         THEN StartProcs(iv1, ps1, label, active) ELSE ps1
    /\ UNCHANGED <<selectedDuration, monitorEndTime, monitorTimeout,
                   remainingTimeInterval, metricText>>
    /\ UNCHANGED notMetricsVars

\* the user collapses a node: onDidCollapseElement stops the fetcher
CollapseElement(label) ==
    /\ metricInterval' = IF label \in MetricNodes
                           THEN StopIntervals(metricInterval, label) ELSE metricInterval
    /\ UNCHANGED <<selectedDuration, monitorEndTime, monitorTimeout,
                   remainingTimeInterval, metricText, procs>>
    /\ UNCHANGED notMetricsVars

\* a scheduled interval fires: one more run of the command of the node
IntervalFires(n) ==
    /\ metricInterval[n]
    /\ Len(procs) < MaxSpawns
    /\ procs' = RunMetrics(procs, n, MonitoringActive(selectedDuration, monitorEndTime))
    /\ UNCHANGED <<selectedDuration, monitorEndTime, monitorTimeout,
                   remainingTimeInterval, metricInterval, metricText>>
    /\ UNCHANGED notMetricsVars

\* 'end' of the stdout of a spawned command: updateCrossplaneMetrics /
\* updateClusterMetrics store what it wrote
MetricsEnd(i, out) ==
    /\ i \in 1..Len(procs)
    /\ ~procs[i].ended
    /\ procs' = [procs EXCEPT ![i].ended = TRUE]
    /\ metricText' = [metricText EXCEPT ![procs[i].node] = out]
    /\ UNCHANGED <<selectedDuration, monitorEndTime, monitorTimeout,
                   remainingTimeInterval, metricInterval>>
    /\ UNCHANGED notMetricsVars

(***************************************************************************)
(* crossplane-explorer.deleteResource (extension.ts).  The handler waits   *)
(* for the modal dialog and for kubectl; invocations interleave at these   *)
(* two points.                                                             *)
(***************************************************************************)
\* the argument of the command: a tree node; "" is a missing field
DeleteTargets ==
    [resourceType : {"", "xrd", "crd", "bucket"}, resourceName : {"", "a"},
     namespace : {"", "n"}]

\* what showWarningMessage returns: the button, or "" for undefined when the
\* dialog is dismissed or cancelled
DialogAnswers == {"Delete", ""}

DeleteIds == 1..MaxDeletes

NoTarget == [resourceType |-> "", resourceName |-> "", namespace |-> ""]

IdleDelete == [pc |-> "idle", resource |-> NoTarget, confirm |-> "none", shown |-> "none",
               refreshed |-> FALSE]

DelIdle ==
    /\ dels = [i \in DeleteIds |-> IdleDelete]
    /\ delProcs = << >>

\* the arguments of kubectl built for a resource
DeleteArgs(resource) ==
    IF resource.resourceType = "xrd" THEN <<"delete", "xrd", resource.resourceName>>
    ELSE IF resource.resourceType = "crd" THEN <<"delete", "crd", resource.resourceName>>
    ELSE <<"delete", resource.resourceType, resource.resourceName>>
           \o (IF resource.namespace # "" THEN <<"-n", resource.namespace>> ELSE << >>)

Proceeds_OnAnyAnswer(confirm) == TRUE

\* if (confirm !== 'Delete') return;
Proceeds(confirm) == confirm = "Delete"

\* the command is invoked on a node: an error when type or name is missing,
\* else the modal confirmation dialog opens
DeleteResource(i, resource) ==
    /\ dels[i].pc = "idle"
    /\ dels' = [dels EXCEPT ![i] =
          IF resource.resourceType = "" \/ resource.resourceName = ""
            THEN [@ EXCEPT !.pc = "done", !.resource = resource, !.shown = "missing"]
            ELSE [@ EXCEPT !.pc = "dialog", !.resource = resource]]
    /\ UNCHANGED delProcs
    /\ UNCHANGED notDelVars

\* the dialog closes with an answer: the handler returns, or builds the
\* arguments and starts kubectl
DialogAnswered(i, confirm) ==
    /\ dels[i].pc = "dialog"
    /\ IF Proceeds(confirm)
         THEN /\ dels' = [dels EXCEPT ![i].pc = "kubectl", ![i].confirm = confirm]
              /\ delProcs' = Append(delProcs,
                                    [by |-> i, cmd |-> "kubectl",
                                     args |-> DeleteArgs(dels[i].resource)])
         ELSE /\ dels' = [dels EXCEPT ![i].pc = "done", ![i].confirm = confirm]
              /\ UNCHANGED delProcs
    /\ UNCHANGED notDelVars

\* kubectl ended: rejected (non-zero exit), or resolved with its output
DeleteEnded(i, rejected, stdout, stderr) ==
    /\ dels[i].pc = "kubectl"
    /\ dels' = [dels EXCEPT ![i] =
          IF rejected THEN [@ EXCEPT !.pc = "done", !.shown = "failed"]
          ELSE IF stderr # "" /\ stdout = "" THEN [@ EXCEPT !.pc = "done", !.shown = "stderr"]
          ELSE [@ EXCEPT !.pc = "done", !.shown = "deleted", !.refreshed = TRUE]]
    /\ UNCHANGED delProcs
    /\ UNCHANGED notDelVars

(***************************************************************************)
(* Deploy and UnDeploy of a folder (extension.ts).  A handler runs up to   *)
(* the dialog, then from one kubectl call to the next; the files of the    *)
(* folder are looked up with fs.existsSync where the code does so.         *)
(***************************************************************************)
FolderFiles == {"definition.yaml", "composition.yaml", "xr.yaml"}

\* what fs.existsSync answers for the files of the folder at one moment
Folders == [FolderFiles -> BOOLEAN]

DeployModes == {"Deploy", "UnDeploy"}

DeployIds == 1..MaxDeploys

\* kubectl apply for Deploy, kubectl delete for UnDeploy
VerbOf(mode) == IF mode = "Deploy" THEN "apply" ELSE "delete"

IdleDeploy == [pc |-> "idle", mode |-> "Deploy", log |-> << >>, shown |-> "none"]

DeployIdle == deploys = [i \in DeployIds |-> IdleDeploy]

Issue(file) == [issue |-> file, shown |-> "none"]

EndWith(shown) == [issue |-> "", shown |-> shown]

\* what the handler does after the step on the file `after` succeeded
\* ("" after the dialog): the next file to run kubectl on, or the end
Advance(mode, after, folder) ==
    IF mode = "Deploy"
      THEN CASE after = "" ->
                  IF ~folder["definition.yaml"] THEN EndWith("missing")
                  ELSE IF ~folder["composition.yaml"] THEN EndWith("missing")
                  ELSE Issue("definition.yaml")
             [] after = "definition.yaml" -> Issue("composition.yaml")
             [] after = "composition.yaml" ->
                  IF folder["xr.yaml"] THEN Issue("xr.yaml") ELSE EndWith("completed")
             [] OTHER -> EndWith("completed")
      ELSE CASE after = "" /\ folder["xr.yaml"] -> Issue("xr.yaml")
             [] after \in {"", "xr.yaml"} ->
                  IF folder["composition.yaml"] THEN Issue("composition.yaml")
                  ELSE EndWith("missing")
             [] after = "composition.yaml" ->
                  IF folder["definition.yaml"] THEN Issue("definition.yaml")
                  ELSE EndWith("missing")
             [] OTHER -> EndWith("completed")

\* the invocation d after the handler went on from the file `after`
Advanced(d, after, folder) ==
    LET a == Advance(d.mode, after, folder)
    IN  IF a.issue # ""
          THEN [d EXCEPT !.pc = "kubectl",
                         !.log = Append(@, [verb |-> VerbOf(d.mode), file |-> a.issue,
                                            state |-> "running"])]
          ELSE [d EXCEPT !.pc = "done", !.shown = a.shown]

StepOutcome_GoesOn(rejected) == "next"

\* try { await executeCommand(...) } catch { ...; return; }
StepOutcome(rejected) == IF rejected THEN "return" ELSE "next"

\* the command is invoked: an error without a folder, else the output
\* channel and the modal dialog
InvokeDeploy(i, mode, hasFolder) ==
    /\ deploys[i].pc = "idle"
    /\ deploys' = [deploys EXCEPT ![i] =
          IF hasFolder THEN [@ EXCEPT !.pc = "dialog", !.mode = mode]
          ELSE [@ EXCEPT !.pc = "done", !.mode = mode, !.shown = "nofolder"]]
    /\ UNCHANGED notDeployVars

\* the dialog closes: the handler returns unless the button of the command
\* was chosen, else it goes on to its first step
DeployDialogAnswered(i, confirmed, folder) ==
    /\ deploys[i].pc = "dialog"
    /\ deploys' = [deploys EXCEPT ![i] =
          IF confirmed THEN Advanced(@, "", folder)
          ELSE [@ EXCEPT !.pc = "done", !.shown = "cancelled"]]
    /\ UNCHANGED notDeployVars

\* the kubectl of the running step ended with an exit code
DeployStepEnded(i, code, folder) ==
    /\ deploys[i].pc = "kubectl"
    /\ LET d == deploys[i]
           n == Len(d.log)
           rejected == CloseRejects(code)
           ended == [d EXCEPT !.log[n].state = IF rejected THEN "rejected" ELSE "resolved"]
       IN  deploys' = [deploys EXCEPT ![i] =
              IF StepOutcome(rejected) = "return"
                THEN [ended EXCEPT !.pc = "done", !.shown = "failed"]
                ELSE Advanced(ended, d.log[n].file, folder)]
    /\ UNCHANGED notDeployVars

(***************************************************************************)
(* Pod log watches (extension.ts).  A channel is a record of its pod name, *)
(* whether it is in activeLogChannels and whether it was disposed; the     *)
(* process spawned for the k-th channel is logProcessMap[k].               *)
(***************************************************************************)
\* resourceName of the node the command is run on, "" for a missing one
PodNames == {"p", "q", ""}

PodNamespaces == {"n", ""}

LogIdle ==
    /\ logChannels = << >>
    /\ logProcessMap = << >>
    /\ subscriptions = TRUE

\* the loop over activeLogChannels: the channels named "Logs: <pod>"
ActiveLogChannel(pod) ==
    {k \in 1..Len(logChannels) : logChannels[k].inActive /\ logChannels[k].pod = pod}

\* outputChannel.dispose as patched by tailPodLogs: the channel leaves
\* activeLogChannels and the original dispose runs
PatchedDispose(chans, k) ==
    [chans EXCEPT ![k].inActive = FALSE, ![k].disposed = TRUE]

\* dispose of the Disposable pushed to context.subscriptions for channel k:
\* the process of the map is killed and the map entry deleted
WatchDisposable(ps, k) ==
    IF ps[k].inMap THEN [ps EXCEPT ![k].alive = FALSE, ![k].inMap = FALSE]
    ELSE ps

\* tailPodLogs(resource)
TailPodLogs(pod, namespace) ==
    /\ subscriptions
    /\ Len(logChannels) < MaxLogs
    /\ IF pod = "" \/ namespace = "" \/ ActiveLogChannel(pod) # {}
         THEN UNCHANGED <<logChannels, logProcessMap>>
         ELSE /\ logChannels' = Append(logChannels,
                                       [pod |-> pod, inActive |-> TRUE, disposed |-> FALSE])
              /\ logProcessMap' = Append(logProcessMap, [alive |-> TRUE, inMap |-> TRUE])
    /\ UNCHANGED subscriptions
    /\ UNCHANGED notLogVars

\* stopPodLog(resource): the channel of the pod is disposed, or a message
StopPodLog(pod) ==
    /\ subscriptions
    /\ pod # ""
    /\ logChannels' = IF ActiveLogChannel(pod) = {} THEN logChannels
                      ELSE PatchedDispose(logChannels, CHOOSE k \in ActiveLogChannel(pod) : TRUE)
    /\ UNCHANGED <<logProcessMap, subscriptions>>
    /\ UNCHANGED notLogVars

\* 'close' of a log process that ended by itself (the pod went away)
LogProcessClose(k) ==
    /\ k \in 1..Len(logProcessMap)
    /\ logProcessMap[k].alive
    /\ logProcessMap' = [logProcessMap EXCEPT ![k].alive = FALSE]
    /\ UNCHANGED <<logChannels, subscriptions>>
    /\ UNCHANGED notLogVars

RECURSIVE DisposeAll(_, _)
DisposeAll(ps, k) ==
    IF k = 0 THEN ps ELSE DisposeAll(WatchDisposable(ps, k), k - 1)

\* the extension is deactivated: context.subscriptions is disposed, and with
\* it the Disposable of every log watch
DisposeSubscriptions ==
    /\ subscriptions
    /\ subscriptions' = FALSE
    /\ logProcessMap' = DisposeAll(logProcessMap, Len(logProcessMap))
    /\ logChannels' = [k \in 1..Len(logChannels) |-> [logChannels[k] EXCEPT !.inActive = FALSE]]
    /\ UNCHANGED notLogVars

(***************************************************************************)
(* safeDeleteEnableDebugConfig (extension.ts).  The cluster is the         *)
(* runtimeConfigRef name of each Provider and Function, "" for none; the   *)
(* call is cut at its two kubectl get and at the end of kubectl delete.    *)
(***************************************************************************)
ProviderNames == {"p1", "p2"}

FunctionNames == {"f1", "f2"}

RuntimeConfigNames == {"enable-debug", "default", ""}

\* what a listing gave: the objects with their references, or nothing
NotListed == [done |-> FALSE, ok |-> FALSE, refs |-> {}]

Listed(refs) == [done |-> TRUE, ok |-> TRUE, refs |-> refs]

ListingFailed == [done |-> TRUE, ok |-> FALSE, refs |-> {}]

IdleSafeDelete ==
    [pc |-> "idle", providers |-> NotListed, functions |-> NotListed,
     deleteIssued |-> FALSE, shown |-> "none"]

DebugIdle ==
    /\ providerRefs = [p \in ProviderNames |-> ""]
    /\ functionRefs = [f \in FunctionNames |-> ""]
    /\ safeDelete = IdleSafeDelete

\* the references of the objects of a listing
RefsOf(refs) == {refs[x] : x \in DOMAIN refs}

\* [...providers, ...functions].some(item => item?.spec?.runtimeConfigRef?.name === 'enable-debug')
Referenced(providers, functions) == "enable-debug" \in providers \cup functions

\* the call starts kubectl get provider
SafeDeleteStart ==
    /\ safeDelete.pc = "idle"
    /\ safeDelete' = [safeDelete EXCEPT !.pc = "providers"]
    /\ UNCHANGED <<providerRefs, functionRefs>>
    /\ UNCHANGED notDebugVars

\* kubectl get provider ended: a failure goes to the outer catch, else
\* kubectl get functions.pkg.crossplane.io is started
ProvidersListed(ok) ==
    /\ safeDelete.pc = "providers"
    /\ safeDelete' =
          IF ok THEN [safeDelete EXCEPT !.pc = "functions",
                                        !.providers = Listed(RefsOf(providerRefs))]
          ELSE [safeDelete EXCEPT !.pc = "done", !.providers = ListingFailed,
                                  !.shown = "errCheck"]
    /\ UNCHANGED <<providerRefs, functionRefs>>
    /\ UNCHANGED notDebugVars

\* the inner try of the functions listing: catch {} leaves functions = []
FunctionsAfter(ok, refs) == IF ok THEN Listed(RefsOf(refs)) ELSE ListingFailed

\* kubectl get functions ended; the references are tested and the delete is
\* issued or the warning shown
FunctionsListed(ok) ==
    /\ safeDelete.pc = "functions"
    /\ LET functions == FunctionsAfter(ok, functionRefs) IN
       safeDelete' =
          IF Referenced(safeDelete.providers.refs, functions.refs)
            THEN [safeDelete EXCEPT !.pc = "done", !.functions = functions,
                                    !.shown = "warnReferenced"]
            ELSE [safeDelete EXCEPT !.pc = "deleting", !.functions = functions,
                                    !.deleteIssued = TRUE]
    /\ UNCHANGED <<providerRefs, functionRefs>>
    /\ UNCHANGED notDebugVars

\* the callback of exec('kubectl delete deploymentruntimeconfig enable-debug')
DebugDeleteEnded(err) ==
    /\ safeDelete.pc = "deleting"
    /\ safeDelete' = [safeDelete EXCEPT !.pc = "done",
                                        !.shown = IF err THEN "errDelete" ELSE "infoDeleted"]
    /\ UNCHANGED <<providerRefs, functionRefs>>
    /\ UNCHANGED notDebugVars

(***************************************************************************)
(* The Helm release details tabs (extension.ts).  A call of                *)
(* showEnhancedHelmReleaseDetails is cut at its awaits: the show or the    *)
(* close of the cached tab, the load of the release data, and the show of  *)
(* the new document.                                                       *)
(***************************************************************************)
\* `${release.name}-${release.namespace}` of the releases of the model
ReleaseKeys == {"web-prod"}

\* release.revision as helm list reports it
Revisions == {"1", "2"}

TabDocs == 1..MaxTabs

NoDoc == 0

TabIdle ==
    /\ openHelmReleaseTabs = [x \in {} |-> [doc |-> NoDoc, revision |-> "1"]]
    /\ releaseDocs = [x \in {} |-> "web-prod"]
    /\ closeListeners = {}
    /\ views = {}

\* a suspended call; id tells apart two calls that are at the same place
View(id, pc, key, revision, doc) ==
    [id |-> id, pc |-> pc, key |-> key, revision |-> revision, doc |-> doc]

ViewIds == 1..MaxViews

NextView == CHOOSE i \in ViewIds : \A v \in views : v.id # i

\* documents are never reused: the next one after those created so far
DocsCreated == DOMAIN releaseDocs \cup closeListeners \cup {v.doc : v \in views}
                  \cup {openHelmReleaseTabs[k].doc : k \in DOMAIN openHelmReleaseTabs}

NextDoc == CHOOSE d \in TabDocs \ DocsCreated : \A e \in TabDocs \ DocsCreated : d <= e

\* !cached.editor.document.isClosed
TabIsOpen(doc) == doc \in DOMAIN releaseDocs

\* the document doc closes: each registered listener of it deletes the key of
\* its call from the map and disposes of itself
AfterClose(tabs, doc) ==
    IF doc \in closeListeners /\ doc \in DOMAIN releaseDocs
      THEN MapDelete(tabs, releaseDocs[doc]) ELSE tabs

\* viewRelease(item) up to the first await of showEnhancedHelmReleaseDetails
ViewRelease(hasRelease, key, revision) ==
    /\ Cardinality(views) < MaxViews
    /\ IF ~hasRelease
         THEN UNCHANGED <<openHelmReleaseTabs, views>>
         ELSE IF MapHas(openHelmReleaseTabs, key)
           THEN LET cached == openHelmReleaseTabs[key] IN
                IF cached.revision # revision
                  THEN IF TabIsOpen(cached.doc)
                         THEN /\ views' = views \cup {View(NextView, "closingOld", key, revision, cached.doc)}
                              /\ UNCHANGED openHelmReleaseTabs
                         ELSE /\ openHelmReleaseTabs' = MapDelete(openHelmReleaseTabs, key)
                              /\ views' = views \cup {View(NextView, "loading", key, revision, NoDoc)}
                  ELSE IF TabIsOpen(cached.doc)
                         THEN /\ views' = views \cup {View(NextView, "surfacing", key, revision, cached.doc)}
                              /\ UNCHANGED openHelmReleaseTabs
                         ELSE /\ openHelmReleaseTabs' = MapDelete(openHelmReleaseTabs, key)
                              /\ views' = views \cup {View(NextView, "loading", key, revision, NoDoc)}
           ELSE /\ views' = views \cup {View(NextView, "loading", key, revision, NoDoc)}
                /\ UNCHANGED openHelmReleaseTabs
    /\ UNCHANGED <<releaseDocs, closeListeners>>
    /\ UNCHANGED notTabVars

\* showTextDocument(oldDocument) and closeActiveEditor have settled: the old
\* tab is closed, the entry deleted, and the release data is loaded
CloseOldDone(v) ==
    /\ v.pc = "closingOld"
    /\ releaseDocs' = MapDelete(releaseDocs, v.doc)
    /\ closeListeners' = closeListeners \ {v.doc}
    /\ openHelmReleaseTabs' = MapDelete(AfterClose(openHelmReleaseTabs, v.doc), v.key)
    /\ views' = (views \ {v}) \cup {View(v.id, "loading", v.key, v.revision, NoDoc)}
    /\ UNCHANGED notTabVars

\* showTextDocument(cached.editor.document) has settled: the call returns
SurfaceDone(v) ==
    /\ v.pc = "surfacing"
    /\ views' = views \ {v}
    /\ UNCHANGED <<openHelmReleaseTabs, releaseDocs, closeListeners>>
    /\ UNCHANGED notTabVars

\* the helm commands of Promise.all have settled: on a failure the catch
\* shows an error, else the document is built and opened
LoadDone(v, ok) ==
    /\ v.pc = "loading"
    /\ IF ok
         THEN /\ TabDocs \ DocsCreated # {}
              /\ views' = (views \ {v}) \cup {View(v.id, "showing", v.key, v.revision, NextDoc)}
         ELSE /\ views' = views \ {v}
    /\ UNCHANGED <<openHelmReleaseTabs, releaseDocs, closeListeners>>
    /\ UNCHANGED notTabVars

\* showTextDocument(doc) has settled: the tab is there, it is recorded in the
\* map with its revision, and the close listener is registered
ShowTabDone(v) ==
    /\ v.pc = "showing"
    /\ releaseDocs' = MapSet(releaseDocs, v.doc, v.key)
    /\ openHelmReleaseTabs' = MapSet(openHelmReleaseTabs, v.key,
                                     [doc |-> v.doc, revision |-> v.revision])
    /\ closeListeners' = closeListeners \cup {v.doc}
    /\ views' = views \ {v}
    /\ UNCHANGED notTabVars

\* the user closes a details tab
UserCloseTab(doc) ==
    /\ doc \in DOMAIN releaseDocs
    /\ \A v \in views : v.doc # doc
    /\ openHelmReleaseTabs' = AfterClose(openHelmReleaseTabs, doc)
    /\ releaseDocs' = MapDelete(releaseDocs, doc)
    /\ closeListeners' = closeListeners \ {doc}
    /\ UNCHANGED views
    /\ UNCHANGED notTabVars

(***************************************************************************)
(* Composition Init (extension.ts).  After the folder is known the handler *)
(* has no await: the loop over templateFiles, with its synchronous fs      *)
(* calls, and the message are one step.                                    *)
(***************************************************************************)
\* const templateFiles = [...], cut to the first MaxTemplates names
templateFiles ==
    SubSeq(<<"composition.yaml", "definition.yaml", "function.yaml",
             "observedResources.yaml", "xr.yaml", "environmentConfig.json",
             "function-creds.yaml", "providers-metadata.json",
             "extraResources.yaml">>, 1, MaxTemplates)

TemplateNames == {templateFiles[i] : i \in 1..Len(templateFiles)}

\* the folders a call may be given
TargetFolders == {"a", "b"}

\* no resourceOrUri.fsPath, or a picker that was dismissed
NoFolder == ""

\* what a path holds: nothing, the text of the template, or the user's own text
Absent == "absent"

FileContents == {"template", "user"}

AllAbsent == [f \in TemplateNames |-> Absent]

ScaffoldIdle ==
    /\ templateDir = AllAbsent
    /\ folderFiles = [d \in TargetFolders |-> AllAbsent]
    /\ initDialogs = 0
    /\ initReports = <<>>
    /\ userEdits = 0

\* fs.existsSync(templatePath)
TemplateExists(filename) == templateDir[filename] # Absent

\* a mutation of DestExists: the destination is never found
DestExists_Never(held, filename) == FALSE

\* fs.existsSync(destPath)
DestExists(held, filename) == held[filename] # Absent

\* for (const filename of templateFiles) { ... }, from the i-th name on
RECURSIVE InitLoop(_, _, _, _)
InitLoop(i, held, created, skipped) ==
    IF i > Len(templateFiles)
      THEN [files |-> held, created |-> created, skipped |-> skipped]
      ELSE LET filename == templateFiles[i] IN
           IF ~TemplateExists(filename)
             THEN InitLoop(i + 1, held, created, skipped)
             ELSE IF DestExists(held, filename)
               THEN InitLoop(i + 1, held, created, Append(skipped, filename))
               ELSE InitLoop(i + 1, [held EXCEPT ![filename] = templateDir[filename]],
                             Append(created, filename), skipped)

\* the message of showInformationMessage; left is what the folder held when
\* the message was shown
InitMessage(folder, created, skipped, left) ==
    [kind |-> IF created = <<>> /\ skipped = <<>> THEN "No files created." ELSE "report",
     folder |-> folder, created |-> created, skipped |-> skipped, left |-> left]

\* the handler from `const path = require('path')` to its end
RunInit(targetFolder) ==
    LET r == InitLoop(1, folderFiles[targetFolder], <<>>, <<>>) IN
    /\ folderFiles' = [folderFiles EXCEPT ![targetFolder] = r.files]
    /\ initReports' = Append(initReports,
                             InitMessage(targetFolder, r.created, r.skipped, r.files))

\* crossplaneExplorer.compositionInit(resourceOrUri)
CompositionInit(fsPath) ==
    /\ Len(initReports) + initDialogs < MaxInits
    /\ IF fsPath # NoFolder
         THEN RunInit(fsPath) /\ UNCHANGED initDialogs
         ELSE /\ initDialogs < MaxDialogs
              /\ initDialogs' = initDialogs + 1
              /\ UNCHANGED <<folderFiles, initReports>>
    /\ UNCHANGED <<templateDir, userEdits>>
    /\ UNCHANGED notScaffoldVars

\* showOpenDialog has settled
InitDialogAnswered(picked) ==
    /\ initDialogs > 0
    /\ initDialogs' = initDialogs - 1
    /\ IF picked = NoFolder
         THEN /\ initReports' = Append(initReports,
                     [kind |-> "No folder selected.", folder |-> NoFolder,
                      created |-> <<>>, skipped |-> <<>>, left |-> AllAbsent])
              /\ UNCHANGED folderFiles
         ELSE RunInit(picked)
    /\ UNCHANGED <<templateDir, userEdits>>
    /\ UNCHANGED notScaffoldVars

\* the user writes or removes a file of a folder outside the command
UserChangesFile(folder, filename, content) ==
    /\ userEdits < MaxEdits
    /\ userEdits' = userEdits + 1
    /\ folderFiles[folder][filename] # content
    /\ folderFiles' = [folderFiles EXCEPT ![folder][filename] = content]
    /\ UNCHANGED <<templateDir, initDialogs, initReports>>
    /\ UNCHANGED notScaffoldVars

\* every part of the extension but the part g is as it is after activation
IdleExcept(g) ==
    /\ IF g = "session" THEN TRUE ELSE SessionInit
    /\ IF g = "clean" THEN TRUE ELSE CleanIdle
    /\ IF g = "watch" THEN TRUE ELSE WatchInit
    /\ IF g = "k8s" THEN TRUE ELSE K8sCleanIdle
    /\ IF g = "diff" THEN TRUE ELSE DiffIdle
    /\ IF g = "tree" THEN TRUE ELSE TreeInit
    /\ IF g = "group" THEN TRUE ELSE GroupIdle
    /\ IF g = "ops" THEN TRUE ELSE OpsIdle
    /\ IF g = "node" THEN TRUE ELSE NodeIdle
    /\ IF g = "xr" THEN TRUE ELSE XrIdle
    /\ IF g = "run" THEN TRUE ELSE RunIdle
    /\ IF g = "metrics" THEN TRUE ELSE MetricsIdle
    /\ IF g = "del" THEN TRUE ELSE DelIdle
    /\ IF g = "deploy" THEN TRUE ELSE DeployIdle
    /\ IF g = "log" THEN TRUE ELSE LogIdle
    /\ IF g = "debug" THEN TRUE ELSE DebugIdle
    /\ IF g = "tab" THEN TRUE ELSE TabIdle
    /\ IF g = "scaffold" THEN TRUE ELSE ScaffoldIdle

(***************************************************************************)
(* The specifications.                                                     *)
(***************************************************************************)
Init == IdleExcept("session") /\ SessionInit

Next ==
    \/ \E r \in Resources, named \in BOOLEAN :
          ViewResource(r, named) /\ UNCHANGED notSessionVars
    \/ \E r \in Resources, named \in BOOLEAN :
          EditResource(r, named) /\ UNCHANGED notSessionVars
    \/ \E c \in Running : EditReopenDone(c) /\ UNCHANGED notSessionVars
    \/ \E c \in Running : EditReshowDone(c) /\ UNCHANGED notSessionVars
    \/ \E c \in Running, outcome \in FetchOutcomes, visible \in SUBSET editors :
          FetchDone(c, outcome, visible) /\ UNCHANGED notSessionVars
    \/ \E c \in Running, e \in Paths :
          CloseEditorStep(c, e) /\ UNCHANGED notSessionVars
    \/ \E c \in Running : OpenDone(c) /\ UNCHANGED notSessionVars
    \/ \E c \in Running : ShowDone(c) /\ UNCHANGED notSessionVars
    \/ \E p \in Paths, valid \in BOOLEAN :
          DidSaveTextDocument(p, valid) /\ UNCHANGED notSessionVars
    \/ \E outcome \in ApplyOutcomes :
          ApplyDone(outcome) /\ UNCHANGED notSessionVars
    \/ \E p \in Paths, unlinkOk \in BOOLEAN, rmdirOk \in BOOLEAN :
          DidCloseTextDocument(p, unlinkOk, rmdirOk) /\ UNCHANGED notSessionVars
    \/ \E p \in Paths : UserCloseEditor(p) /\ UNCHANGED notSessionVars
    \/ \E p \in Paths : ExternalDelete(p) /\ UNCHANGED notSessionVars

Spec == Init /\ [][Next]_vars

InitClean ==
    /\ IdleExcept("clean")
    /\ fetched \in Fetched
    /\ written = NotWritten

NextClean == EditSanitize

SpecClean == InitClean /\ [][NextClean]_vars

InitWatch == IdleExcept("watch") /\ WatchInit

NextWatch ==
    \/ \E r \in WatchTargets : ShowLiveDiff(r)
    \/ \E s \in starts : ImportDone(s)
    \/ \E s \in starts, outcome \in CrdOutcomes : CrdDone(s, outcome)
    \/ \E s \in starts, ok \in BOOLEAN : WatchDone(s, ok)
    \/ \E r \in WatchTargets : StopFieldWatch(r)
    \/ \E id \in ChannelIds, err \in BOOLEAN : WatchEnds(id, err)
    \/ \E id \in ChannelIds, type \in EventTypes, obj \in WatchEventObjects :
          WatchEvent(id, type, obj)
    \/ \E id \in ChannelIds, type \in EventTypes, obj \in WatchEventObjects :
          LateEvent(id, type, obj)
    \/ \E id \in ChannelIds : LateDrop(id)

SpecWatch == InitWatch /\ [][NextWatch]_vars

InitK8sClean ==
    /\ IdleExcept("k8s")
    /\ cleanArg \in K8sObjects
    /\ cleanArgBefore = cleanArg
    /\ cleanOnce = Undefined
    /\ cleanTwice = Undefined
    /\ cleanCalls = 0

NextK8sClean ==
    \/ CleanFirst
    \/ CleanSecond

SpecK8sClean == InitK8sClean /\ [][NextK8sClean]_vars

InitDiff ==
    /\ IdleExcept("diff")
    /\ diffOld \in DiffObjects
    /\ diffNew \in DiffObjects
    /\ diffOut = NotRendered

NextDiff == ShowDiff

SpecDiff == InitDiff /\ [][NextDiff]_vars

InitTree == IdleExcept("tree") /\ TreeInit

NextTree ==
    \/ XpRefresh
    \/ HelmRefresh
    \/ XpGetChildrenRoot
    \/ \E id \in 1..MaxFetches, out \in BulkOutcomes : XpBulkDone(id, out)
    \/ XpGetChildrenXPExplorer
    \/ XpGetChildrenCategory
    \/ \E ok \in BOOLEAN : XpGetChildrenDeploymentFlow(ok)
    \/ XpGetChildrenDeploymentFlowClaim
    \/ HelmGetChildrenRoot
    \/ \E id \in 1..MaxFetches, out \in BulkOutcomes : HelmLoadDone(id, out)
    \/ HelmGetChildrenNamespace

SpecTree == InitTree /\ [][NextTree]_vars

InitGroup ==
    /\ IdleExcept("group")
    /\ flowItems \in UNION {[1..n -> Composites] : n \in 0..MaxComposites}
    /\ flowOut = NotExpanded
    /\ claimOut = NoClaimOut

NextGroup ==
    \/ ExpandDeploymentFlow
    \/ \E c \in 1..MaxComposites : ExpandClaim(c)

SpecGroup == InitGroup /\ [][NextGroup]_vars

InitOps == IdleExcept("ops") /\ OpsIdle

NextOps ==
    \/ \E i \in OpIds, kind \in {"pause", "resume"}, named \in BOOLEAN :
          AnnotateResource(i, kind, named)
    \/ \E i \in OpIds, fails \in BOOLEAN, stderr \in Stderrs : AnnotateDone(i, fails, stderr)
    \/ \E i \in OpIds, ok \in BOOLEAN : AnnotationRead(i, ok)
    \/ \E i \in OpIds, parses \in BOOLEAN, doc \in Specs \cup {NoSpec} :
          SaveTracked(i, parses, doc)
    \/ \E i \in OpIds, exit \in {0, 1}, stderr \in Stderrs, taken \in BOOLEAN :
          ApplyEnded(i, exit, stderr, taken)
    \/ \E i \in OpIds, out \in {"failed", "nospec", "live"} : SaveVerified(i, out)

SpecOps == InitOps /\ [][NextOps]_vars

InitNode ==
    /\ IdleExcept("node")
    /\ nodeElement \in CategoryLabels
    /\ nodeItem \in Items
    /\ nodeOut = NoNode

NextNode == ExpandCategory

SpecNode == InitNode /\ [][NextNode]_vars

InitXr ==
    /\ IdleExcept("xr")
    /\ xrElement \in {XrNode(kind, 0) : kind \in CompositeKinds}
    /\ xrRefs \in RefLists
    /\ xrOut = NotFetched

NextXr ==
    \/ \E ok \in BOOLEAN : ExpandComposite(ok)
    \/ \E j \in 1..MaxRefs, refs \in RefLists : ExpandNested(j, refs)

SpecXr == InitXr /\ [][NextXr]_vars

InitRun == IdleExcept("run") /\ RunIdle

NextRun ==
    \/ \E withStdin \in BOOLEAN, outcome \in {"ok", "enoent", "throws"} :
          Launch(withStdin, outcome)
    \/ \E c \in Chunks : StdoutData(c)
    \/ \E c \in Chunks : StderrData(c)
    \/ \E code \in ExitCodes : ChildExit(code)
    \/ ChildClose
    \/ ChildError
    \/ CloseAfterError

SpecRun == InitRun /\ [][NextRun]_vars

InitMetrics == IdleExcept("metrics") /\ MetricsIdle

NextMetrics ==
    \/ \E minutes \in Durations : SetMonitorDuration(minutes)
    \/ DismissDurationPick
    \/ MonitorTimeoutFires
    \/ StopMonitoring
    \/ \E label \in ExpandableLabels : ExpandElement(label)
    \/ \E label \in ExpandableLabels : CollapseElement(label)
    \/ \E n \in MetricNodes : IntervalFires(n)
    \/ \E i \in 1..MaxSpawns, out \in MetricOutputs : MetricsEnd(i, out)

SpecMetrics == InitMetrics /\ [][NextMetrics]_vars

InitDel == IdleExcept("del") /\ DelIdle

NextDel ==
    \/ \E i \in DeleteIds, resource \in DeleteTargets : DeleteResource(i, resource)
    \/ \E i \in DeleteIds, confirm \in DialogAnswers : DialogAnswered(i, confirm)
    \/ \E i \in DeleteIds, rejected \in BOOLEAN, stdout \in {"", "out"}, stderr \in {"", "err"} :
          DeleteEnded(i, rejected, stdout, stderr)

SpecDel == InitDel /\ [][NextDel]_vars

InitDeploy == IdleExcept("deploy") /\ DeployIdle

NextDeploy ==
    \/ \E i \in DeployIds, mode \in DeployModes, hasFolder \in BOOLEAN :
          InvokeDeploy(i, mode, hasFolder)
    \/ \E i \in DeployIds, confirmed \in BOOLEAN, folder \in Folders :
          DeployDialogAnswered(i, confirmed, folder)
    \/ \E i \in DeployIds, code \in ExitCodes, folder \in Folders :
          DeployStepEnded(i, code, folder)

SpecDeploy == InitDeploy /\ [][NextDeploy]_vars

InitLog == IdleExcept("log") /\ LogIdle

NextLog ==
    \/ \E pod \in PodNames, namespace \in PodNamespaces : TailPodLogs(pod, namespace)
    \/ \E pod \in PodNames : StopPodLog(pod)
    \/ \E k \in 1..MaxLogs : LogProcessClose(k)
    \/ DisposeSubscriptions

SpecLog == InitLog /\ [][NextLog]_vars

InitDebug ==
    /\ IdleExcept("debug")
    /\ providerRefs \in [ProviderNames -> RuntimeConfigNames]
    /\ functionRefs \in [FunctionNames -> RuntimeConfigNames]
    /\ safeDelete = IdleSafeDelete

NextDebug ==
    \/ SafeDeleteStart
    \/ \E ok \in BOOLEAN : ProvidersListed(ok)
    \/ \E ok \in BOOLEAN : FunctionsListed(ok)
    \/ \E err \in BOOLEAN : DebugDeleteEnded(err)

SpecDebug == InitDebug /\ [][NextDebug]_vars

InitTab == IdleExcept("tab") /\ TabIdle

NextTab ==
    \/ \E hasRelease \in BOOLEAN, key \in ReleaseKeys, revision \in Revisions :
          ViewRelease(hasRelease, key, revision)
    \/ \E v \in views : CloseOldDone(v)
    \/ \E v \in views : SurfaceDone(v)
    \/ \E v \in views, ok \in BOOLEAN : LoadDone(v, ok)
    \/ \E v \in views : ShowTabDone(v)
    \/ \E doc \in TabDocs : UserCloseTab(doc)

SpecTab == InitTab /\ [][NextTab]_vars

\* the extension ships any of the templates; the folders start empty
InitScaffold ==
    /\ IdleExcept("scaffold")
    /\ templateDir \in [TemplateNames -> {Absent, "template"}]
    /\ folderFiles = [d \in TargetFolders |-> AllAbsent]
    /\ initDialogs = 0
    /\ initReports = <<>>
    /\ userEdits = 0

NextScaffold ==
    \/ \E fsPath \in TargetFolders \cup {NoFolder} : CompositionInit(fsPath)
    \/ \E picked \in TargetFolders \cup {NoFolder} : InitDialogAnswered(picked)
    \/ \E folder \in TargetFolders, filename \in TemplateNames,
          content \in FileContents \cup {Absent} :
          UserChangesFile(folder, filename, content)

SpecScaffold == InitScaffold /\ [][NextScaffold]_vars

(***************************************************************************)
(* The session manager's claims.                                           *)
(***************************************************************************)
ViewKey(r) == getResourceKey(r, "view")

EditKey(r) == getResourceKey(r, "edit")

\* no invocation is suspended and the host has delivered every close event
Quiescent == calls = EmptyBag /\ docs \subseteq editors

\* the session of key is complete and its document has not been closed
SessionOpen(key) ==
    /\ MapHas(resourceToTempFileMap, key)
    /\ resourceToTempFileMap[key] \in docs
    /\ resourceToTempFileMap[key] \in editors

\* C1: for every identity and mode, at most one kubectl get fetch for it is in
\* flight at any time, under any interleaving of open requests for it.
C1_OneFetchInFlight ==
    \A c \in Running : c.pc = "fetching" => CopiesIn(c, calls) = 1

\* C2: an open of an identity+mode whose session is complete and whose document
\* has not been closed performs no kubectl get: no fetch for a key is in flight
\* while the session of that key is open.
C2_IdempotentOpen ==
    \A c \in Running : c.pc = "fetching" => ~SessionOpen(c.key)

\* C3: resourceToTempFileMap and tempFileToResourceMap are mutual inverses in
\* every reachable state.
C3_MutualInverses ==
    /\ \A k \in DOMAIN resourceToTempFileMap :
          /\ MapHas(tempFileToResourceMap, resourceToTempFileMap[k])
          /\ tempFileToResourceMap[resourceToTempFileMap[k]] = k
    /\ \A p \in DOMAIN tempFileToResourceMap :
          /\ MapHas(resourceToTempFileMap, tempFileToResourceMap[p])
          /\ resourceToTempFileMap[tempFileToResourceMap[p]] = p

\* C4: mode exclusivity: once the opens have completed and the close events are
\* delivered, an identity has a tab and a session-map entry in one mode only.
C4_ModeExclusive ==
    Quiescent =>
       \A r \in Resources :
          /\ ~(MapHas(resourceToTempFileMap, ViewKey(r))
               /\ MapHas(resourceToTempFileMap, EditKey(r)))
          /\ ~\E p \in editors, q \in editors :
                /\ MapHas(tempFileToResourceMap, p)
                /\ MapHas(tempFileToResourceMap, q)
                /\ tempFileToResourceMap[p] = ViewKey(r)
                /\ tempFileToResourceMap[q] = EditKey(r)

\* C5: closing a document whose path the reverse map tracks removes both map
\* entries of its session whether the unlink succeeds or fails, and shows no
\* notification (a failure is logged to the console only).
C5_CloseAlwaysCleans ==
    [][\A p \in Paths, unlinkOk \in BOOLEAN, rmdirOk \in BOOLEAN :
          (MapHas(tempFileToResourceMap, p) /\ DidCloseTextDocument(p, unlinkOk, rmdirOk))
          => /\ ~MapHas(tempFileToResourceMap', p)
             /\ ~MapHas(resourceToTempFileMap', tempFileToResourceMap[p])
             /\ p \notin MapValues(resourceToTempFileMap')
             /\ lastMsg' \in {"none"} \cup ConsoleLogs]_vars

\* a tracked document has just been closed, its cleanup failed, its entries are gone
C5_Witness ==
    /\ lastMsg \in ConsoleLogs
    /\ \E p \in Paths : /\ p \notin docs
                        /\ ~MapHas(tempFileToResourceMap, p)
                        /\ p \notin MapValues(resourceToTempFileMap)

\* C6: a save of a tracked temp file whose text does not parse as YAML shows an
\* error, starts no kubectl apply and leaves the session maps as they are.
C6_ParseErrorNeverApplies ==
    [][\A p \in Paths :
          (MapHas(tempFileToResourceMap, p) /\ DidSaveTextDocument(p, FALSE))
          => /\ lastMsg' = "yamlError"
             /\ applying' = applying
             /\ UNCHANGED <<resourceToTempFileMap, tempFileToResourceMap>>]_vars

\* a tracked file has just been saved with text that does not parse
C6_Witness ==
    /\ lastMsg = "yamlError"
    /\ \E p \in editors : MapHas(tempFileToResourceMap, p)

\* C7: in every open operation, view as well as edit, a fetched object of kind
\* List ends the operation with a user-facing error: no temp file is written,
\* no session-map entry is added, no document is opened.
C7_ListRejected ==
    [][\A c \in Running, visible \in SUBSET editors :
          FetchDone(c, "list", visible)
          => /\ lastMsg' = "errList"
             /\ UNCHANGED <<files, resourceToTempFileMap, tempFileToResourceMap, docs>>]_vars

\* C9: no save of a view-mode temp file starts a kubectl apply.
C9_ViewNeverApplies ==
    [][\A p \in Paths, valid \in BOOLEAN :
          (/\ MapHas(tempFileToResourceMap, p)
           /\ KeyMode(tempFileToResourceMap[p]) = "view"
           /\ DidSaveTextDocument(p, valid))
          => applying' = applying]_vars

(***************************************************************************)
(* The sanitisation's claims.                                              *)
(***************************************************************************)
\* some key of the object, at whatever depth, is named k
HasKeyNamed(doc, k) == \E q \in doc : \E i \in 1..Len(q) : q[i] = k

\* the text has none of the metadata fields and not the annotation
NoSanitizedMetadata(doc) ==
    /\ \A f \in SanitizedMetadataFields : <<"metadata", f>> \notin doc
    /\ <<"metadata", "annotations", LastApplied>> \notin doc

\* C8 as stated: the text written for an edit session has no metadata.uid,
\* resourceVersion, creationTimestamp, managedFields, no last-applied
\* annotation, and no key named status at any nesting depth.
C8_NoStatusAtAnyDepth ==
    written.result = "written"
    => NoSanitizedMetadata(written.keys) /\ ~HasKeyNamed(written.keys, "status")

\* C8: the text written for an edit session has no metadata.uid,
\* resourceVersion, creationTimestamp, managedFields, no last-applied
\* annotation and no top-level status key; every key below spec, one named
\* status included, is written as fetched.
C8_NoTopLevelStatus ==
    written.result = "written"
    => /\ NoSanitizedMetadata(written.keys)
       /\ \A q \in written.keys : q[1] # "status"
       /\ \A q \in fetched.keys : q[1] = "spec" => q \in written.keys

\* an object with every field to remove and a nested status has been written
C8_Witness ==
    /\ written.result = "written"
    /\ \A f \in SanitizedMetadataFields : <<"metadata", f>> \in fetched.keys
    /\ <<"metadata", "annotations", LastApplied>> \in fetched.keys
    /\ <<"status", "conditions">> \in fetched.keys
    /\ <<"spec", "status">> \in fetched.keys
    /\ <<"spec", "status">> \in written.keys

(***************************************************************************)
(* The field watch's claims.                                               *)
(***************************************************************************)
\* a watch request for key is open
Watched(key) == \E id \in DOMAIN subs : subs[id] = key

\* C10: at most one watch request is open and at most one output channel
\* exists per resource key, and a start for a key that is being watched opens
\* no request, creates no channel and suspends no handler: it shows the
\* existing channel and appends the informational line.
C10_OneWatchPerKey ==
    /\ [](\A key \in WatchTargets :
             /\ Cardinality({id \in DOMAIN subs : subs[id] = key}) <= 1
             /\ Cardinality({id \in DOMAIN channels : channels[id] = key}) <= 1)
    /\ [][\A r \in WatchTargets :
             (Watched(FieldWatchKey(r)) /\ ShowLiveDiff(r))
             => /\ watchMsg' = Line(FieldWatchKey(r), "infoAlreadyRunning")
                /\ UNCHANGED <<subs, channels, starts, fieldWatchMap,
                               fieldWatchOutputMap>>]_vars

\* a start has just been answered with the informational line while the watch
\* of its key is open
C10_Witness ==
    \E key \in WatchTargets :
          /\ watchMsg = Line(key, "infoAlreadyRunning")
          /\ Watched(key)
          /\ MapHas(fieldWatchOutputMap, key)
          /\ fieldWatchOutputMap[key] \in DOMAIN channels

\* C11: a start that aborts because the type definition cannot be resolved (no
\* resource type, a CRD read that fails or returns no valid CRD) leaves no
\* entry for its key in fieldWatchMap nor in fieldWatchOutputMap.
C11_AbortLeavesNoEntry ==
    [][/\ \A s \in starts, outcome \in CrdOutcomes \ {"ok"} :
             CrdDone(s, outcome)
             => /\ ~MapHas(fieldWatchOutputMap', s.key)
                /\ ~MapHas(fieldWatchMap', s.key)
       /\ \A r \in WatchTargets :
             (~HasType(r) /\ ~WatchAlreadyRunning(FieldWatchKey(r)) /\ ShowLiveDiff(r))
             => /\ ~MapHas(fieldWatchOutputMap', FieldWatchKey(r))
                /\ ~MapHas(fieldWatchMap', FieldWatchKey(r))]_vars

\* C12: a stop for a key that has a stop function closes its request, appends
\* the stop notice, disposes of its channel and removes the key from both
\* maps; a stop for a key without one changes neither map and only reports
\* that there is no active watch.
C12_StopCleansOrReports ==
    [][\A r \in WatchTargets :
          StopFieldWatch(r)
          => IF MapHas(fieldWatchMap, FieldWatchKey(r))
             THEN /\ fieldWatchMap[FieldWatchKey(r)] \notin DOMAIN subs'
                  /\ fieldWatchMap[FieldWatchKey(r)] \notin DOMAIN channels'
                  /\ ~MapHas(fieldWatchMap', FieldWatchKey(r))
                  /\ ~MapHas(fieldWatchOutputMap', FieldWatchKey(r))
                  /\ watchMsg' = Line(FieldWatchKey(r), "infoStopped")
             ELSE /\ UNCHANGED <<fieldWatchMap, fieldWatchOutputMap, subs, channels>>
                  /\ watchMsg' = Line(FieldWatchKey(r), "infoNoActive")]_vars

\* a watch has just been stopped: the notice is out and the key is in no map
C12_Witness ==
    \E key \in WatchTargets :
       /\ watchMsg = Line(key, "infoStopped")
       /\ ~MapHas(fieldWatchMap, key)
       /\ ~MapHas(fieldWatchOutputMap, key)
       /\ ~Watched(key)

\* C13: once the stop of a watch has returned, its callback appends no event
\* header and no diff line any more, even if the transport hands over an
\* event it had already read: the callback runs for open requests only.
C13_NoEventAfterStop ==
    lastEvent.header => lastEvent.id \in DOMAIN subs

\* C14: after an event the previous snapshot is the cleaned object of the
\* event for ADDED and MODIFIED and is absent for DELETED, and showDiff is
\* given empty and new for ADDED, previous and new for MODIFIED, previous and
\* empty for DELETED.
C14_SnapshotAndDiff ==
    [][\A id \in ChannelIds, type \in {"ADDED", "MODIFIED", "DELETED"},
          obj \in WatchEventObjects :
          WatchEvent(id, type, obj)
          => /\ prevObj'[id] = (IF type = "DELETED" THEN Undefined ELSE cleanK8sObject(obj))
             /\ lastEvent'.called
             /\ lastEvent'.oldStr = (IF type = "ADDED" THEN EmptyObject
                                     ELSE JsonStringify(prevObj[id]))
             /\ lastEvent'.newStr = (IF type = "DELETED" THEN EmptyObject
                                     ELSE JsonStringify(cleanK8sObject(obj)))]_vars

\* a DELETED event has just been diffed against the snapshot of an earlier
\* event, and the snapshot is gone
C14_Witness ==
    /\ lastEvent.type = "DELETED"
    /\ lastEvent.called
    /\ lastEvent.oldStr # Undefined
    /\ lastEvent.newStr = EmptyObject
    /\ lastEvent.id \in DOMAIN prevObj
    /\ prevObj[lastEvent.id] = Undefined

\* C15: an event whose cleaned object has no changed leaf against the previous
\* snapshot appends no line at all to the channel.
C15_SilentWhenUnchanged ==
    [][\A id \in ChannelIds, obj \in WatchEventObjects :
          (WatchEvent(id, "MODIFIED", obj) /\ prevObj[id] = cleanK8sObject(obj))
          => EventLines(lastEvent') = {}]_vars

(***************************************************************************)
(* The claims of the diff and of the cleaning.                             *)
(***************************************************************************)
\* the paths of the leaves of an object
LeafPaths(o) == {p \in DOMAIN o : o[p] \notin {"object", "array"}}

\* some line with this marker is about the path p or about a node above it
Shown(marker, p) ==
    \E line \in diffOut.lines : line.marker = marker /\ IsPrefix(line.path, p)

\* C16: showDiff(A, B) shows every leaf of A that B has not as a removal,
\* every leaf of B that A has not as an addition and every leaf of both whose
\* values differ as an edit, leaves inside lists included, and showDiff(A, A)
\* appends no line.
C16_RendersEveryLeaf ==
    diffOut.done
    => /\ \A p \in LeafPaths(diffOld) \ DOMAIN diffNew : Shown("-", p)
       /\ \A p \in LeafPaths(diffNew) \ DOMAIN diffOld : Shown("+", p)
       /\ \A p \in LeafPaths(diffOld) \cap LeafPaths(diffNew) :
             diffOld[p] # diffNew[p] => Shown("~", p)
       /\ diffOld = diffNew => diffOut.lines = {}

\* C17: cleanK8sObject is idempotent and leaves the object it is given as it
\* was: cleaning the cleaned object gives the cleaned object again, and the
\* caller's object is the same after the calls as before.
C17_CleanIdempotentNoMutation ==
    /\ cleanCalls >= 1 => cleanArg = cleanArgBefore
    /\ cleanCalls = 2 => cleanTwice = cleanOnce

\* an object with noisy metadata and conditions has been cleaned twice
C17_Witness ==
    /\ cleanCalls = 2
    /\ <<"metadata", "uid">> \in DOMAIN cleanArg
    /\ <<"metadata", "generation">> \in DOMAIN cleanArg
    /\ <<"status", "conditions">> \in DOMAIN cleanArg
    /\ <<"metadata", "uid">> \notin DOMAIN cleanOnce
    /\ <<"status", "conditions">> \notin DOMAIN cleanOnce
    /\ <<"metadata", "name">> \in DOMAIN cleanOnce

(***************************************************************************)
(* The claims of the tree providers.                                       *)
(***************************************************************************)
\* the refreshes that had been called when the bulk fetch id of p started
StartedAt(p, id) == spawnedAt[p][id]

\* C18: in the Crossplane tree a call of getChildren that arrives while the
\* bulk fetch is in flight starts no subprocess, so that at most one bulk
\* kubectl get runs at a time and one is started per population of the cache.
C18_OneBulkFetchInFlight ==
    Cardinality(inFlight["crossplane"]) <= 1

\* C19: once refresh() has been called, the result of a bulk fetch started
\* before that call is neither stored in the cache nor served to a later
\* expansion, in either provider.
C19_NoResultFromBeforeRefresh ==
    /\ \A p \in Providers :
          cache[p].from # 0 => StartedAt(p, cache[p].from) = refreshCount[p]
    /\ resolved.from # 0
          => StartedAt(resolved.provider, resolved.from) = refreshCount[resolved.provider]

\* C20: every call of getChildren of either provider, for the root or for a
\* node handed to the tree view before, resolves to a list and never throws,
\* also after refresh() has cleared the cache.
C20_GetChildrenNeverThrows ==
    resolved.outcome # "throws"

(***************************************************************************)
(* The claims of the deployment-flow grouping.                             *)
(***************************************************************************)
\* the composites that carry the claim reference ref
Carrying(ref) == {i \in 1..Len(flowItems) : flowItems[i].claimRef = ref}

\* the claim references that some composite carries
CarriedRefs == {flowItems[i].claimRef : i \in 1..Len(flowItems)} \ {NoRef}

\* the elements of a sequence
Range(seq) == {seq[i] : i \in 1..Len(seq)}

\* C21: expanding deployment-flow yields exactly one claim node per distinct
\* claim reference (kind and group, name, namespace), whose children are
\* exactly the composites that carry the reference, and exactly one root XR
\* node per composite with neither a claim reference nor an owner reference.
C21_OneNodePerClaimRef ==
    flowOut.done
    => /\ Len(flowOut.claimNodes) = Cardinality(CarriedRefs)
       /\ \A ref \in CarriedRefs :
             \E c \in 1..Len(flowOut.claimNodes) :
                Range(flowOut.claimNodes[c].composites) = Carrying(ref)
       /\ Range(flowOut.parentXRNodes)
             = {i \in 1..Len(flowItems) : flowItems[i].claimRef = NoRef /\ ~flowItems[i].owned}
       /\ Len(flowOut.parentXRNodes) = Cardinality(Range(flowOut.parentXRNodes))

(***************************************************************************)
(* The claims of save, pause and resume.                                   *)
(***************************************************************************)
\* the error output holds "forbidden" or "permission" in some letter case
HasPermissionMarker(stderr) ==
    Includes(ToLowerCase(stderr), "forbidden") \/ Includes(ToLowerCase(stderr), "permission")

\* the run that just ended got as far as the end of its apply or annotate
RanSubprocess ==
    lastRun.op.kind \in {"save", "pause", "resume"}
    /\ lastRun.messages # {Msg("error", "missing")}
    /\ lastRun.op.parsed

\* C22: for an apply or annotate operation, whenever the error output of the
\* subprocess holds "forbidden" or "permission" in any letter case, whether
\* the exit status was zero or not, the user is shown the permission error
\* and not the generic failure.
C22_PermissionErrorShown ==
    RanSubprocess /\ HasPermissionMarker(lastRun.op.stderr)
    => lastRun.messages = {Msg("error", "permission")}

\* the levels of the messages the run that just ended showed
ShownLevels == {m[1] : m \in lastRun.messages}

Succeeded == Msg("info", "success") \in lastRun.messages

C25_PauseIdempotent ==
    lastRun.op.kind \in {"pause", "resume"}
    => /\ ( /\ lastRun.op.before = PausedValue(lastRun.op.kind)
            /\ lastRun.messages # {Msg("error", "missing")}
            /\ ~lastRun.op.faulty
            /\ ~HasPermissionMarker(lastRun.op.stderr)
            /\ lastRun.op.checked \in {"none", PausedValue(lastRun.op.kind)} )
          => lastRun.messages = {Msg("info", "success")}
       /\ Succeeded => annotation = PausedValue(lastRun.op.kind)

\* a pause of a resource that was paused already has ended with success
C25_Witness ==
    /\ lastRun.op.kind = "pause"
    /\ lastRun.op.before = "true"
    /\ lastRun.op.checked = "true"
    /\ lastRun.messages = {Msg("info", "success")}

(***************************************************************************)
(* The claims of the nodes of the Crossplane tree.                         *)
(***************************************************************************)
\* the status a condition stands for
ConditionText(status, good, bad) ==
    IF status = "absent" THEN "Unknown" ELSE IF status = "True" THEN good ELSE bad

\* C26: every provider node and every function node of the Crossplane tree
\* carries the status of the object's condition Healthy (Healthy, Unhealthy,
\* or Unknown when absent); the nodes of other kinds carry the status of the
\* condition Synced in the same way.
C26_NodesCarryStatus ==
    nodeOut.shown
    => IF nodeElement \in {"providers", "functions"}
       THEN nodeOut.status = ConditionText(nodeItem.Healthy, "Healthy", "Unhealthy")
       ELSE nodeElement # "crds"
            => nodeOut.status = ConditionText(nodeItem.Synced, "Synced", "NotSynced")

\* C27: expanding any composite node of the deployment-flow tree, a root XR
\* or a child of a claim node or a nested XR, issues one fetch of that object
\* and returns one child per entry of its resourceRefs: an expandable node
\* tagged composite-xr for a kind that begins with "X", else a leaf that is
\* not expandable and is tagged managed-resource.
C27_CompositeChildren ==
    xrOut.done
    => /\ xrOut.fetch = "object"
       /\ xrOut.ok
          => /\ Len(xrOut.children) = Len(xrRefs)
             /\ \A j \in 1..Len(xrRefs) :
                   /\ xrOut.children[j].kind = xrRefs[j]
                   /\ xrOut.children[j].expandable = StartsWith(xrRefs[j], "X")
                   /\ xrOut.children[j].contextValue
                         = IF StartsWith(xrRefs[j], "X") THEN "composite-xr"
                           ELSE "managed-resource"

(***************************************************************************)
(* The claims of the process runner.                                       *)
(***************************************************************************)
\* the process has ended and its streams are closed, or it was never started
ChildOver == child.state \in {"closed", "failed", "unspawned"}

\* the process was started and ended with exit code 0
ExitedZero == child.state = "closed" /\ child.code = 0

RunSettled ==
    /\ ChildOver => promise.state # "pending"
    /\ promise.state = "resolved"
          => ExitedZero /\ promise.value = emitted
    /\ ExitedZero => promise.state = "resolved"
    /\ ChildOver /\ ~ExitedZero => promise.state = "rejected"

\* C24: every call of executeCommand / executeCommandWithStdin settles exactly
\* once: it is settled when the process is over and never changes afterwards;
\* it resolves, with all the text written to stdout and stderr, if and only
\* if the exit code is 0; it rejects on another exit code and when the
\* executable cannot be launched.
C24_RunnerSettlesOnce ==
    /\ [] RunSettled
    /\ [][promise.state # "pending"
            => promise'.state = promise.state /\ promise'.value = promise.value]_vars

\* a process given its stdin wrote to both of its streams and the call resolved
C24_Witness ==
    /\ promise.state = "resolved"
    /\ Len(promise.value.stdout) = MaxChunks
    /\ Len(promise.value.stderr) > 0
    /\ child.stdin

(***************************************************************************)
(* C28  No background polling: in every state in which monitoring is      *)
(* inactive, no metrics polling interval is scheduled, and no metrics      *)
(* command was spawned while monitoring was inactive, also after the user  *)
(* expanded or collapsed the Crossplane or the Cluster node.               *)
(***************************************************************************)
SpawnedWhileInactive == \E i \in 1..Len(procs) : ~procs[i].active

C28_NoBackgroundPolling ==
    /\ ~MonitoringActive(selectedDuration, monitorEndTime)
         => \A n \in MetricNodes : ~metricInterval[n]
    /\ ~SpawnedWhileInactive

(***************************************************************************)
(* C29  Delete with confirmation: every subprocess deleteResource issued   *)
(* is a kubectl delete of the resource of an invocation whose dialog was   *)
(* answered with the Delete button; an invocation whose dialog was         *)
(* dismissed or cancelled, or is still open, has issued no subprocess.     *)
(***************************************************************************)
IssuedBy(i) == {k \in 1..Len(delProcs) : delProcs[k].by = i}

C29_DeleteOnlyAfterConfirm ==
    /\ \A k \in 1..Len(delProcs) :
          /\ dels[delProcs[k].by].confirm = "Delete"
          /\ delProcs[k].cmd = "kubectl"
          /\ delProcs[k].args[1] = "delete"
          /\ delProcs[k].args[3] = dels[delProcs[k].by].resource.resourceName
    /\ \A i \in DeleteIds :
          dels[i].confirm # "Delete" => IssuedBy(i) = {}
    /\ \A i \in DeleteIds : Cardinality(IssuedBy(i)) <= 1

\* one invocation deleted a namespaced resource after Delete was chosen, and
\* another one ended at a dismissed dialog without a subprocess
C29_Witness ==
    \E i, j \in DeleteIds :
       /\ dels[i].shown = "deleted" /\ IssuedBy(i) # {}
       /\ dels[i].resource.namespace = "n"
       /\ dels[j].pc = "done" /\ dels[j].confirm = "" /\ IssuedBy(j) = {}

(***************************************************************************)
(* C30  Deploy applies definition.yaml, then composition.yaml, then        *)
(* xr.yaml if present, and UnDeploy deletes xr.yaml if present, then       *)
(* composition.yaml, then definition.yaml, always in this order; a step is *)
(* issued only when every earlier step has succeeded, and after a failed   *)
(* step nothing more is issued.                                            *)
(***************************************************************************)
FilesOf(log) == [k \in 1..Len(log) |-> log[k].file]

DeployOrder == <<"definition.yaml", "composition.yaml", "xr.yaml">>

UnDeployOrder == <<"xr.yaml", "composition.yaml", "definition.yaml">>

InOrder(d) ==
    IF d.mode = "Deploy"
      THEN IsPrefix(FilesOf(d.log), DeployOrder)
      ELSE \/ IsPrefix(FilesOf(d.log), UnDeployOrder)
           \/ IsPrefix(FilesOf(d.log), Tail(UnDeployOrder))

C30_DeployOrder ==
    \A i \in DeployIds :
       LET d == deploys[i] IN
       /\ InOrder(d)
       /\ \A k \in 1..Len(d.log) :
             /\ d.log[k].verb = VerbOf(d.mode)
             /\ k < Len(d.log) => d.log[k].state = "resolved"
             /\ d.log[k].state = "rejected" => d.pc = "done" /\ d.shown = "failed"
             /\ d.log[k].state = "running" <=> (k = Len(d.log) /\ d.pc = "kubectl")
       /\ d.shown = "completed" =>
             /\ Len(d.log) >= 2
             /\ \A k \in 1..Len(d.log) : d.log[k].state = "resolved"
             /\ {"definition.yaml", "composition.yaml"} \subseteq {d.log[k].file : k \in 1..Len(d.log)}

\* a Deploy went through its three steps, and an UnDeploy stopped at its
\* failed second step
C30_Witness ==
    \E i, j \in DeployIds :
       /\ deploys[i].mode = "Deploy" /\ deploys[i].shown = "completed"
       /\ Len(deploys[i].log) = 3
       /\ deploys[j].mode = "UnDeploy" /\ deploys[j].shown = "failed"
       /\ Len(deploys[j].log) = 2 /\ deploys[j].log[2].state = "rejected"

(***************************************************************************)
(* C31  After stopPodLog for a pod with an active log watch the kubectl    *)
(* logs -f process started for that pod has been killed: the process of a  *)
(* channel that was stopped is not alive, and so at most one log process   *)
(* per pod is alive.                                                       *)
(***************************************************************************)
AliveFor(pod) ==
    {k \in 1..Len(logChannels) : logChannels[k].pod = pod /\ logProcessMap[k].alive}

C31_StoppedLogIsKilled ==
    /\ \A k \in 1..Len(logChannels) : logChannels[k].disposed => ~logProcessMap[k].alive
    /\ \A pod \in PodNames : Cardinality(AliveFor(pod)) <= 1

(***************************************************************************)
(* C32  The Opening guard is transient: a key is in openingResources only  *)
(* while a request that added it is still between its add and its         *)
(* finally, and the step in which such a request completes, whatever its   *)
(* outcome, leaves its key out of openingResources.                        *)
(***************************************************************************)
\* the positions of a handler between openingResources.add and the finally
Guarded(c) == c.pc \in {"fetching", "closing", "opening", "showing"}

\* this step ends one invocation that was at c
Completed(c) ==
    /\ CopiesIn(c, calls') < CopiesIn(c, calls)
    /\ BagCardinality(calls') < BagCardinality(calls)

PlaceholderServed(p) ==
    /\ resolved.provider = p
    /\ resolved.node = (IF p = "crossplane" THEN "category" ELSE "root")
    /\ resolved.outcome = "list"
    /\ resolved.from = 0
    /\ ~cache[p].loaded
    /\ inFlight[p] # {}

FetchCompletes(p) == inFlight'[p] # inFlight[p] /\ inFlight'[p] \subseteq inFlight[p]

C33_ChangeEventAfterFetch ==
    [][\A p \in Providers : PlaceholderServed(p) /\ FetchCompletes(p) => fired'[p]]_vars

(***************************************************************************)
(* C34  In HelmTreeProvider, under any interleaving of root getChildren    *)
(* calls and refresh() calls, at most one helm list subprocess is in       *)
(* flight, and the loading flag is true exactly while one is in flight: it *)
(* is false again once the subprocess has ended, in success and failure.   *)
(***************************************************************************)
C34_HelmLoadingGuard ==
    /\ Cardinality(inFlight["helm"]) <= 1
    /\ loading["helm"] <=> inFlight["helm"] # {}

\* two loads have run, the second one failed, refresh() was called in
\* between, and the flag is down again
C34_Witness ==
    /\ Len(spawnedAt["helm"]) = 2
    /\ refreshCount["helm"] > 0
    /\ inFlight["helm"] = {}
    /\ ~loading["helm"]
    /\ cache["helm"] = Cached(0, "empty")

(***************************************************************************)
(* C35  If a stop request for an identity is issued while a start request  *)
(* for the same identity is still resolving the type definition or opening *)
(* the watch, then once the start has completed too no subscription is     *)
(* active for the identity and neither watch map holds an entry for it.    *)
(***************************************************************************)
StartInFlight(key) == \E s \in starts : s.key = key

\* the last step was a stop request for key that found no stop function,
\* and a start for key is in flight
StoppedDuringStart(key) ==
    /\ StartInFlight(key)
    /\ watchMsg = Line(key, "infoNoActive")

\* this step ends the start that was in flight for key
StartCompletes(key) ==
    /\ StartInFlight(key)
    /\ \A s \in starts' : s.key # key

C35_StopDuringStartWins ==
    [][\A r \in WatchTargets :
          LET key == FieldWatchKey(r) IN
          StoppedDuringStart(key) /\ StartCompletes(key)
             => /\ \A id \in DOMAIN subs' : subs'[id] # key
                /\ ~MapHas(fieldWatchMap', key)
                /\ ~MapHas(fieldWatchOutputMap', key)]_vars

(***************************************************************************)
(* C36  Every composite of the deployment-flow list query that has no      *)
(* owner reference is reachable from the top level: it is a child of       *)
(* exactly one claim node or it is a root XR node, never neither and       *)
(* never both, also when its claim reference lacks a name, a kind or a     *)
(* namespace.                                                              *)
(***************************************************************************)
\* the claim nodes that have the composite i among their children
ClaimNodesOf(i) ==
    {c \in 1..Len(flowOut.claimNodes) : i \in Range(flowOut.claimNodes[c].composites)}

IsRootXR(i) == i \in Range(flowOut.parentXRNodes)

C36_UnownedCompositeReachable ==
    flowOut.done
    => \A i \in 1..Len(flowItems) :
          ~flowItems[i].owned
             => \/ Cardinality(ClaimNodesOf(i)) = 1 /\ ~IsRootXR(i)
                \/ ClaimNodesOf(i) = {} /\ IsRootXR(i)

(***************************************************************************)
(* C37  When an open request finds a session entry whose temp file can no  *)
(* longer be opened, it removes both stale map entries and recreates the   *)
(* session by a fresh fetch and write: the step that drops the stale       *)
(* entries leaves none for the identity and mode, and when the request     *)
(* has shown its new file the maps hold exactly one entry pair for the     *)
(* identity and mode, pointing at that file.                               *)
(***************************************************************************)
\* the paths the reverse map gives to key
PathsOf(rev, key) == {p \in DOMAIN rev : rev[p] = key}

\* this step takes the call c from its existing session to a fresh fetch
Recreates(c) ==
    /\ c.pc \in {"reopening", "reshowing"}
    /\ CopiesIn(c, calls') < CopiesIn(c, calls)
    /\ CopiesIn(Call("fetching", c.key, NoPath, {}), calls')
          > CopiesIn(Call("fetching", c.key, NoPath, {}), calls)

\* this step ends the call c of editResource with its new file shown
ShowsNewFile(c) ==
    /\ KeyMode(c.key) = "edit"
    /\ c.pc = "showing"
    /\ Completed(c)
    /\ lastMsg' = "none"

C37_StaleSessionRecreated ==
    [][\A c \in Running :
          /\ Recreates(c)
                => /\ ~MapHas(resourceToTempFileMap', c.key)
                   /\ PathsOf(tempFileToResourceMap', c.key) = {}
          /\ ShowsNewFile(c)
                => /\ MapHas(resourceToTempFileMap', c.key)
                   /\ resourceToTempFileMap'[c.key] = c.path
                   /\ PathsOf(tempFileToResourceMap', c.key) = {c.path}]_vars

(***************************************************************************)
(* C38  safeDeleteEnableDebugConfig issues the delete of the enable-debug  *)
(* DeploymentRuntimeConfig only if no Provider and no Function of the      *)
(* cluster references it; when one does, or when the listing of the        *)
(* providers or of the functions failed, no delete command is issued.      *)
(***************************************************************************)
ReferencedInCluster == Referenced(RefsOf(providerRefs), RefsOf(functionRefs))

C38_DeleteOnlyIfUnreferenced ==
    safeDelete.deleteIssued
    => /\ ~ReferencedInCluster
       /\ safeDelete.providers.ok
       /\ safeDelete.functions.ok

(***************************************************************************)
(* C39  At most one Helm release details tab is open per release under any *)
(* sequence or interleaving of viewRelease calls.                          *)
(***************************************************************************)
TabsOf(key) == {d \in DOMAIN releaseDocs : releaseDocs[d] = key}

C39_OneTabPerRelease ==
    \A key \in ReleaseKeys : Cardinality(TabsOf(key)) <= 1

(***************************************************************************)
(* C40  Composition Init never modifies an existing file: a template file  *)
(* name that already exists in the target folder keeps its content and is  *)
(* reported as skipped, only absent files are created (with the text of    *)
(* their template), no other folder changes, and a run on a folder that is *)
(* as the previous run left it creates nothing.                            *)
(***************************************************************************)
\* this step is a run of the loop on folder d
InitRan(d) ==
    /\ Len(initReports') = Len(initReports) + 1
    /\ initReports'[Len(initReports')].folder = d

LastReport == initReports[Len(initReports)]

InitRunKeepsExisting(d) ==
    LET report == initReports'[Len(initReports')] IN
    /\ \A f \in TemplateNames :
          IF folderFiles[d][f] # Absent
            THEN /\ folderFiles'[d][f] = folderFiles[d][f]
                 /\ f \notin Range(report.created)
                 /\ TemplateExists(f) => f \in Range(report.skipped)
            ELSE /\ f \notin Range(report.skipped)
                 /\ f \in Range(report.created) <=> TemplateExists(f)
                 /\ folderFiles'[d][f] = templateDir[f]
    /\ \A e \in TargetFolders \ {d} : folderFiles'[e] = folderFiles[e]
    /\ (/\ initReports # <<>>
        /\ LastReport.folder = d
        /\ LastReport.left = folderFiles[d]) => report.created = <<>>

C40_InitKeepsExistingFiles ==
    [][\A d \in TargetFolders : InitRan(d) => InitRunKeepsExisting(d)]_vars

\* two runs in a row on a folder that held a file of the user: the first
\* created the others and skipped it, the second created nothing
C40_Witness ==
    /\ Len(initReports) = 2
    /\ initReports[1].folder = "a" /\ initReports[2].folder = "a"
    /\ initReports[1].created # <<>> /\ initReports[1].skipped # <<>>
    /\ initReports[1].left = folderFiles["a"]
    /\ initReports[2].created = <<>>
    /\ \E f \in Range(initReports[1].skipped) : folderFiles["a"][f] = "user"

====
